---- MODULE Spec2Model ----
(***************************************************************************)
(* legend_db: the MVCC layer of src/sql/storage/mvcc.rs over the ordered   *)
(* byte-KV engine, with the order-preserving key codec of keycode.rs.      *)
(*                                                                         *)
(* Byte strings are sequences over 0..255.  The engine is a finite         *)
(* function from encoded keys to encoded values, scanned in lexicographic  *)
(* byte order (a BTreeMap<Vec<u8>, _> in both engines).  Every method of   *)
(* Mvcc / MvccTransaction holds the engine mutex from its first to its     *)
(* last line, so one call is one atomic step.  The callers in the source   *)
(* are straight-line drivers (the #[test] functions of mvcc.rs, a          *)
(* session), which leave through `?` at the first Err.                     *)
(***************************************************************************)
EXTENDS Integers, Sequences, FiniteSets, TLC

\* ------------------------------------------------------------------ bounds
\* Drivers run one after another against the same Mvcc.
MaxRuns == 3
\* Versions of the transaction states handed to is_visible.
MaxVersion == 4

\* ------------------------------------------------------------ byte strings
\* u64::MAX = 2^64 - 1 lies outside TLC's integers; -1 stands for it (all-ones).
U64_MAX == -1

\* Ord of Vec<u8>: lexicographic, a proper prefix sorts first.
LexLess(a, b) ==
    \/ /\ Len(a) < Len(b)
       /\ \A j \in 1..Len(a) : a[j] = b[j]
    \/ \E i \in 1..Len(a) :
          /\ i <= Len(b)
          /\ a[i] < b[i]
          /\ \A j \in 1..(i - 1) : a[j] = b[j]

LexLeq(a, b) == a = b \/ LexLess(a, b)

\* u64::to_be_bytes, for versions below 2^31 and for u64::MAX.
to_be_bytes(v) ==
    IF v = U64_MAX THEN [i \in 1..8 |-> 255]
    ELSE [i \in 1..8 |-> IF i <= 4 THEN 0 ELSE (v \div (256 ^ (8 - i))) % 256]

\* u64::from_be_bytes on 8 bytes (inverse of the above on its range).
from_be_bytes(b) ==
    IF \A i \in 1..8 : b[i] = 255 THEN U64_MAX
    ELSE b[5] * 16777216 + b[6] * 65536 + b[7] * 256 + b[8]

\* Option<T>: None is the empty sequence, Some(x) the one-element sequence.
None == << >>
Some(x) == << x >>

\* ------------------------------------------------------- bincode (values)
\* bincode 2 config::standard(): unsigned integers are varint encoded.
bincode_encode_u64(n) ==
    IF n < 251 THEN << n >>
    ELSE IF n < 65536 THEN << 251, n % 256, n \div 256 >>
    ELSE << 252, n % 256, (n \div 256) % 256, (n \div 65536) % 256, n \div 16777216 >>

bincode_decode_u64(b) ==
    IF Len(b) = 0 THEN [ok |-> FALSE, val |-> 0, rest |-> << >>]
    ELSE IF b[1] < 251 THEN [ok |-> TRUE, val |-> b[1], rest |-> Tail(b)]
    ELSE IF b[1] = 251 /\ Len(b) >= 3
         THEN [ok |-> TRUE, val |-> b[2] + 256 * b[3], rest |-> SubSeq(b, 4, Len(b))]
    ELSE IF b[1] = 252 /\ Len(b) >= 5
         THEN [ok |-> TRUE, val |-> b[2] + 256 * b[3] + 65536 * b[4] + 16777216 * b[5],
               rest |-> SubSeq(b, 6, Len(b))]
    ELSE [ok |-> FALSE, val |-> 0, rest |-> << >>]

\* bincode::encode_to_vec(&Option<Vec<u8>>): tag byte, then length and bytes.
bincode_encode_option(value) ==
    IF value = None THEN << 0 >>
    ELSE << 1 >> \o bincode_encode_u64(Len(value[1])) \o value[1]

bincode_decode_option(b) ==
    IF Len(b) = 0 THEN [ok |-> FALSE, val |-> None]
    ELSE IF b[1] = 0 THEN [ok |-> TRUE, val |-> None]
    ELSE IF b[1] = 1 THEN
        LET n == bincode_decode_u64(Tail(b))
        IN  IF n.ok /\ Len(n.rest) >= n.val
            THEN [ok |-> TRUE, val |-> Some(SubSeq(n.rest, 1, n.val))]
            ELSE [ok |-> FALSE, val |-> None]
    ELSE [ok |-> FALSE, val |-> None]

\* ------------------------------------------------------------- MvccKey
NextVersion == [tag |-> "NextVersion"]
TxnActive(version) == [tag |-> "TxnActive", version |-> version]
TxnWrite(version, key) == [tag |-> "TxnWrite", version |-> version, key |-> key]
Version(key, version) == [tag |-> "Version", key |-> key, version |-> version]

\* serialize_bytes without the escape of 0.
RECURSIVE serialize_bytes_unescaped(_)
serialize_bytes_unescaped(v) ==
    IF v = << >> THEN << 0, 0 >>
    ELSE << Head(v) >> \o serialize_bytes_unescaped(Tail(v))

\* KeyCodeSerializer::serialize_bytes: 0 becomes 0 255, the end is 0 0.
RECURSIVE serialize_bytes(_)
serialize_bytes(v) ==
    IF v = << >> THEN << 0, 0 >>
    ELSE (IF Head(v) = 0 THEN << 0, 255 >> ELSE << Head(v) >>) \o serialize_bytes(Tail(v))

\* keycode::serializer on an MvccKey: one byte of variant index, then the fields.
serializer(key) ==
    CASE key.tag = "NextVersion" -> << 0 >>
      [] key.tag = "TxnActive" -> << 1 >> \o to_be_bytes(key.version)
      [] key.tag = "TxnWrite" -> << 2 >> \o to_be_bytes(key.version) \o serialize_bytes(key.key)
      [] key.tag = "Version" -> << 3 >> \o serialize_bytes(key.key) \o to_be_bytes(key.version)

MvccKey_encode(key) == serializer(key)

\* KeyCodeDeserializer::next_bytes: un-escape up to the 0 0 terminator.
RECURSIVE next_bytes(_)
next_bytes(input) ==
    IF input = << >> THEN [ok |-> FALSE, val |-> << >>, rest |-> << >>]
    ELSE IF input[1] = 0 THEN
        IF Len(input) < 2 THEN [ok |-> FALSE, val |-> << >>, rest |-> << >>]
        ELSE IF input[2] = 0
             THEN [ok |-> TRUE, val |-> << >>, rest |-> SubSeq(input, 3, Len(input))]
        ELSE IF input[2] = 255 THEN
            LET r == next_bytes(SubSeq(input, 3, Len(input)))
            IN  [ok |-> r.ok, val |-> << 0 >> \o r.val, rest |-> r.rest]
        ELSE [ok |-> FALSE, val |-> << >>, rest |-> << >>]
    ELSE LET r == next_bytes(Tail(input))
         IN  [ok |-> r.ok, val |-> << input[1] >> \o r.val, rest |-> r.rest]

\* keycode::deserializer to an MvccKey.  take_bytes slices without a length
\* check, so a short input panics; an unknown variant index is a serde error.
deserializer(input) ==
    IF Len(input) < 1 THEN [ok |-> FALSE, err |-> "panic", key |-> NextVersion]
    ELSE LET body == Tail(input) IN
      CASE input[1] = 0 -> [ok |-> TRUE, err |-> "", key |-> NextVersion]
        [] input[1] = 1 ->
             IF Len(body) < 8 THEN [ok |-> FALSE, err |-> "panic", key |-> NextVersion]
             ELSE [ok |-> TRUE, err |-> "", key |-> TxnActive(from_be_bytes(SubSeq(body, 1, 8)))]
        [] input[1] = 2 ->
             IF Len(body) < 8 THEN [ok |-> FALSE, err |-> "panic", key |-> NextVersion]
             ELSE LET r == next_bytes(SubSeq(body, 9, Len(body)))
                  IN  IF r.ok
                      THEN [ok |-> TRUE, err |-> "",
                            key |-> TxnWrite(from_be_bytes(SubSeq(body, 1, 8)), r.val)]
                      ELSE [ok |-> FALSE, err |-> "Internal", key |-> NextVersion]
        [] input[1] = 3 ->
             LET r == next_bytes(body)
             IN  IF ~r.ok THEN [ok |-> FALSE, err |-> "Internal", key |-> NextVersion]
                 ELSE IF Len(r.rest) < 8 THEN [ok |-> FALSE, err |-> "panic", key |-> NextVersion]
                 ELSE [ok |-> TRUE, err |-> "",
                       key |-> Version(r.val, from_be_bytes(SubSeq(r.rest, 1, 8)))]
        [] OTHER -> [ok |-> FALSE, err |-> "DeserializerError", key |-> NextVersion]

MvccKey_decode(data) == deserializer(data)

\* enum MvccKeyPrefix
PrefixTxnActive == [tag |-> "TxnActive"]
PrefixTxnWrite(version) == [tag |-> "TxnWrite", version |-> version]
PrefixVersion(key) == [tag |-> "Version", key |-> key]

\* MvccKeyPrefix::encode ignores self: whatever the prefix, it returns the
\* bincode encoding of MvccKey::NextVersion, the varint of variant index 0.
MvccKeyPrefix_encode(prefix) == bincode_encode_u64(0)

\* ----------------------------------------------------------- byte-KV engine
\* The engine's contents: a function from stored keys to their values.
EmptyEngine == << >>

Engine_set(data, key, value) ==
    [k \in (DOMAIN data) \cup {key} |-> IF k = key THEN value ELSE data[k]]

Engine_get(data, key) == IF key \in DOMAIN data THEN Some(data[key]) ELSE None

Engine_delete(data, key) == [k \in (DOMAIN data) \ {key} |-> data[k]]

RECURSIVE Ascending(_)
Ascending(S) ==
    IF S = {} THEN << >>
    ELSE LET m == CHOOSE x \in S : \A y \in S : LexLeq(x, y)
         IN  << m >> \o Ascending(S \ {m})

\* scan over (Included(lo), hi): the stored keys of the range in ascending order.
Engine_scan(data, lo, hi, hiIncluded) ==
    Ascending({k \in DOMAIN data :
                  /\ LexLeq(lo, k)
                  /\ IF hiIncluded THEN LexLeq(k, hi) ELSE LexLess(k, hi)})

\* Engine::scan_prefix: [prefix, prefix with its last byte + 1).  The increment is
\* a plain u8 `+= 1`: on 0xFF it panics in a debug build and wraps in a release
\* build, where the range then has start > end and BTreeMap::range panics.
Engine_scan_prefix(data, prefix) ==
    IF prefix = << >> THEN [panic |-> FALSE, keys |-> << >>]
    ELSE IF prefix[Len(prefix)] = 255 THEN [panic |-> TRUE, keys |-> << >>]
    ELSE [panic |-> FALSE,
          keys |-> Engine_scan(data, prefix,
                               [prefix EXCEPT ![Len(prefix)] = prefix[Len(prefix)] + 1],
                               FALSE)]

\* ------------------------------------------------------------------- MVCC
\* The result of one call: the engine afterwards, Ok / Err / Panic, and the
\* returned value or the error's name.
Ok(data, val) == [data |-> data, tag |-> "Ok", err |-> "", val |-> val]
Err(data, err) == [data |-> data, tag |-> "Err", err |-> err, val |-> << >>]
Panic(data) == [data |-> data, tag |-> "Panic", err |-> "panic", val |-> << >>]
Failed(data, err) == IF err = "panic" THEN Panic(data) ELSE Err(data, err)

Min(S) == CHOOSE x \in S : \A y \in S : x <= y

is_visible(state, version) ==
    IF version \in state.active_versions THEN TRUE
    ELSE version <= state.version

\* The loop of get_active_txns over the scanned keys, in order.
RECURSIVE active_txns_loop(_, _)
active_txns_loop(keys, active_txns) ==
    IF keys = << >> THEN [ok |-> TRUE, err |-> "", val |-> active_txns]
    ELSE LET d == MvccKey_decode(Head(keys)) IN
         IF ~d.ok THEN [ok |-> FALSE, err |-> d.err, val |-> {}]
         ELSE IF d.key.tag = "TxnActive"
              THEN active_txns_loop(Tail(keys), active_txns \cup {d.key.version})
         ELSE [ok |-> FALSE, err |-> "Internal", val |-> {}]

get_active_txns(data) ==
    LET txn_iter == Engine_scan_prefix(data, MvccKeyPrefix_encode(PrefixTxnActive))
    IN  IF txn_iter.panic THEN [ok |-> FALSE, err |-> "panic", val |-> {}]
        ELSE active_txns_loop(txn_iter.keys, {})

\* MvccTransaction::begin.  On Ok, val is the new transaction's state.
begin(data) ==
    LET stored == Engine_get(data, MvccKey_encode(NextVersion))
        decoded == bincode_decode_u64(stored[1])
    IN  IF stored # None /\ ~decoded.ok THEN Err(data, "EncodeError")
        ELSE
          LET next_version == IF stored # None THEN decoded.val + 1 ELSE 1
              d1 == Engine_set(data, MvccKey_encode(NextVersion),
                               bincode_encode_u64(next_version + 1))
              active == get_active_txns(d1)
          IN  IF ~active.ok THEN Failed(d1, active.err)
              ELSE Ok(Engine_set(d1, MvccKey_encode(TxnActive(next_version)), << >>),
                      [version |-> next_version, active_versions |-> active.val])

RECURSIVE DeleteAll(_, _)
DeleteAll(data, keys) ==
    IF keys = << >> THEN data
    ELSE DeleteAll(Engine_delete(data, Head(keys)), Tail(keys))

commit(data, state) ==
    LET txns == Engine_scan_prefix(data, MvccKeyPrefix_encode(PrefixTxnWrite(state.version)))
    IN  IF txns.panic THEN Panic(data)
        ELSE Ok(Engine_delete(DeleteAll(data, txns.keys),
                              MvccKey_encode(TxnActive(state.version))),
                << >>)

\* The loop of rollback: for each scanned key, the Version key it undoes and
\* then the key itself.
RECURSIVE rollback_loop(_, _, _)
rollback_loop(keys, state, delete_keys) ==
    IF keys = << >> THEN [ok |-> TRUE, err |-> "", val |-> delete_keys]
    ELSE LET d == MvccKey_decode(Head(keys)) IN
         IF ~d.ok THEN [ok |-> FALSE, err |-> d.err, val |-> << >>]
         ELSE IF d.key.tag = "TxnWrite"
              THEN rollback_loop(Tail(keys), state,
                       delete_keys \o << MvccKey_encode(Version(d.key.key, state.version)),
                                         Head(keys) >>)
         ELSE [ok |-> FALSE, err |-> "Internal", val |-> << >>]

rollback(data, state) ==
    LET txns == Engine_scan_prefix(data, MvccKeyPrefix_encode(PrefixTxnWrite(state.version)))
    IN  IF txns.panic THEN Panic(data)
        ELSE LET r == rollback_loop(txns.keys, state, << >>) IN
             IF ~r.ok THEN Failed(data, r.err)
             ELSE Ok(Engine_delete(DeleteAll(data, r.val),
                                   MvccKey_encode(TxnActive(state.version))),
                     << >>)

\* write_inner(key, Some(value)) is set, write_inner(key, None) is delete.
write_inner(data, state, key, value) ==
    LET from == MvccKey_encode(Version(key,
                    IF state.active_versions # {} THEN Min(state.active_versions)
                    ELSE state.version + 1))
        to == MvccKey_encode(Version(key, U64_MAX))
        found == Engine_scan(data, from, to, TRUE)
        d == MvccKey_decode(found[Len(found)])
        written == Engine_set(
                     Engine_set(data, MvccKey_encode(TxnWrite(state.version, key)), << >>),
                     MvccKey_encode(Version(key, state.version)),
                     bincode_encode_option(value))
    IN  IF found = << >> THEN Ok(written, << >>)
        ELSE IF ~d.ok THEN Failed(data, d.err)
        ELSE IF d.key.tag # "Version" THEN Err(data, "Internal")
        ELSE IF ~is_visible(state, d.key.version) THEN Err(data, "WriteMvccConflict")
        ELSE Ok(written, << >>)

\* The loop of get over the scanned keys, newest first.
RECURSIVE get_loop(_, _, _)
get_loop(data, state, keys) ==
    IF keys = << >> THEN Ok(data, None)
    ELSE LET k == keys[Len(keys)]
             d == MvccKey_decode(k)
         IN  IF ~d.ok THEN Failed(data, d.err)
             ELSE IF d.key.tag # "Version" THEN Err(data, "Internal")
             ELSE IF is_visible(state, d.key.version) THEN
                  LET v == bincode_decode_option(data[k])
                  IN  IF v.ok THEN Ok(data, v.val) ELSE Err(data, "DecodeError")
             ELSE get_loop(data, state, SubSeq(keys, 1, Len(keys) - 1))

get(data, state, key) ==
    get_loop(data, state,
             Engine_scan(data, MvccKey_encode(Version(key, 0)),
                         MvccKey_encode(Version(key, state.version)), TRUE))

\* The loop of scan_prefix: results is the BTreeMap raw key -> raw value.
RECURSIVE scan_loop(_, _, _, _)
scan_loop(data, state, keys, results) ==
    IF keys = << >> THEN [ok |-> TRUE, err |-> "", val |-> results]
    ELSE LET d == MvccKey_decode(Head(keys)) IN
         IF ~d.ok THEN [ok |-> FALSE, err |-> d.err, val |-> << >>]
         ELSE IF d.key.tag # "Version" THEN [ok |-> FALSE, err |-> "Internal", val |-> << >>]
         ELSE IF ~is_visible(state, d.key.version)
              THEN scan_loop(data, state, Tail(keys), results)
         ELSE LET v == bincode_decode_option(data[Head(keys)]) IN
              IF ~v.ok THEN [ok |-> FALSE, err |-> "DecodeError", val |-> << >>]
              ELSE IF v.val = None THEN [ok |-> FALSE, err |-> "Internal", val |-> << >>]
              ELSE scan_loop(data, state, Tail(keys),
                             Engine_set(results, d.key.key, v.val[1]))

\* results.into_iter(): the (key, value) pairs in ascending raw-key order.
ScanResults(results) ==
    LET order == Ascending(DOMAIN results)
    IN  [i \in 1..Len(order) |-> << order[i], results[order[i]] >>]

\* MvccTransaction::scan_prefix.  enc_prefix.len() - 2 is a usize subtraction:
\* below 2 it panics in a debug build and wraps in a release build, where
\* truncate to a length beyond the vector's leaves it as it is.
scan_prefix(data, state, prefix, build) ==
    LET enc == MvccKeyPrefix_encode(PrefixVersion(prefix))
        enc_prefix == IF Len(enc) >= 2 THEN SubSeq(enc, 1, Len(enc) - 2) ELSE enc
        iter == Engine_scan_prefix(data, enc_prefix)
    IN  IF Len(enc) < 2 /\ build = "debug" THEN Panic(data)
        ELSE IF iter.panic THEN Panic(data)
        ELSE LET r == scan_loop(data, state, iter.keys, << >>) IN
             IF ~r.ok THEN Failed(data, r.err)
             ELSE Ok(data, ScanResults(r.val))

\* ---------------------------------------------------------------- drivers
\* The byte strings of the tests (ASCII).
b_key1 == << 107, 101, 121, 49 >>
b_key2 == << 107, 101, 121, 50 >>
b_key3 == << 107, 101, 121, 51 >>
b_key4 == << 107, 101, 121, 52 >>
b_aabb == << 97, 97, 98, 98 >>
b_abcc == << 97, 98, 99, 99 >>
b_bbaa == << 98, 98, 97, 97 >>
b_acca == << 97, 99, 99, 97 >>
b_aaca == << 97, 97, 99, 97 >>
b_bcca == << 98, 99, 99, 97 >>
b_ke == << 107, 101 >>
b_key == << 107, 101, 121 >>
b_aa == << 97, 97 >>
b_a == << 97 >>
b_val1 == << 118, 97, 108, 49 >>
b_val2 == << 118, 97, 108, 50 >>
b_val3 == << 118, 97, 108, 51 >>
b_val4 == << 118, 97, 108, 52 >>
b_val5 == << 118, 97, 108, 53 >>
b_val6 == << 118, 97, 108, 54 >>
b_val1_1 == << 118, 97, 108, 49, 45, 49 >>
b_val1_2 == << 118, 97, 108, 49, 45, 50 >>
b_val2_1 == << 118, 97, 108, 50, 45, 49 >>
b_val3_1 == << 118, 97, 108, 51, 45, 49 >>
b_val3_2 == << 118, 97, 108, 51, 45, 50 >>
b_val4_1 == << 118, 97, 108, 52, 45, 49 >>
b_val5_1 == << 118, 97, 108, 53, 45, 49 >>

\* One statement of a driver: a call on the Mvcc (begin) or on the transaction
\* bound to the local `tx`.  try: the call is followed by `?`.  assert: the
\* statement is assert_eq!(call?, want).
Stmt(op, tx, key, value, try, assert, want) ==
    [op |-> op, tx |-> tx, key |-> key, value |-> value,
     try |-> try, assert |-> assert, want |-> want]

Begin(tx) == Stmt("begin", tx, << >>, << >>, TRUE, FALSE, << >>)
Set(tx, key, value) == Stmt("set", tx, key, value, TRUE, FALSE, << >>)
Delete(tx, key) == Stmt("delete", tx, key, << >>, TRUE, FALSE, << >>)
Commit(tx) == Stmt("commit", tx, << >>, << >>, TRUE, FALSE, << >>)
Rollback(tx) == Stmt("rollback", tx, << >>, << >>, TRUE, FALSE, << >>)
AssertGet(tx, key, want) == Stmt("get", tx, key, << >>, TRUE, TRUE, want)
AssertScan(tx, prefix, want) == Stmt("scan_prefix", tx, prefix, << >>, TRUE, TRUE, want)
\* The same calls with their Result kept instead of `?`.
TrySet(tx, key, value) == Stmt("set", tx, key, value, FALSE, FALSE, << >>)
TryDelete(tx, key) == Stmt("delete", tx, key, << >>, FALSE, FALSE, << >>)

\* tests::get
test_get ==
    << Begin("tx"),
       Set("tx", b_key1, b_val1), Set("tx", b_key2, b_val2), Set("tx", b_key2, b_val3),
       Set("tx", b_key3, b_val4), Delete("tx", b_key3), Commit("tx"),
       Begin("tx1"),
       AssertGet("tx1", b_key1, Some(b_val1)),
       AssertGet("tx1", b_key2, Some(b_val3)),
       AssertGet("tx1", b_key3, None) >>

\* tests::get_isolation
test_get_isolation ==
    << Begin("tx"),
       Set("tx", b_key1, b_val1), Set("tx", b_key2, b_val2), Set("tx", b_key2, b_val3),
       Set("tx", b_key3, b_val4), Commit("tx"),
       Begin("tx1"), Set("tx1", b_key1, b_val2),
       Begin("tx2"),
       Begin("tx3"), Set("tx3", b_key2, b_val4), Delete("tx3", b_key3), Commit("tx3"),
       AssertGet("tx2", b_key1, Some(b_val1)),
       AssertGet("tx2", b_key2, Some(b_val3)),
       AssertGet("tx2", b_key3, Some(b_val4)) >>

\* The six rows tests::scan_prefix and tests::scan_isolation start from.
ScanSetup ==
    << Begin("tx"),
       Set("tx", b_aabb, b_val1), Set("tx", b_abcc, b_val2), Set("tx", b_bbaa, b_val3),
       Set("tx", b_acca, b_val4), Set("tx", b_aaca, b_val5), Set("tx", b_bcca, b_val6),
       Commit("tx") >>

\* The three scans both tests assert.
ScanAsserts ==
    << AssertScan("tx1", b_aa, << << b_aabb, b_val1 >>, << b_aaca, b_val5 >> >>),
       AssertScan("tx1", b_a, << << b_aabb, b_val1 >>, << b_aaca, b_val5 >>,
                                 << b_abcc, b_val2 >>, << b_acca, b_val4 >> >>),
       AssertScan("tx1", b_bcca, << << b_bcca, b_val6 >> >>) >>

\* tests::scan_prefix
test_scan_prefix == ScanSetup \o << Begin("tx1") >> \o ScanAsserts

\* tests::scan_isolation
test_scan_isolation ==
    ScanSetup \o
    << Begin("tx1"),
       Begin("tx2"), Set("tx2", b_acca, b_val4_1), Set("tx2", b_aabb, b_val1_1),
       Begin("tx3"), Set("tx3", b_bbaa, b_val3_1), Delete("tx3", b_bcca), Commit("tx3") >>
    \o ScanAsserts

\* The five writes tests::set and tests::set_conflict start from.
SetSetup ==
    << Begin("tx"),
       Set("tx", b_key1, b_val1), Set("tx", b_key2, b_val2), Set("tx", b_key2, b_val3),
       Set("tx", b_key3, b_val4), Set("tx", b_key4, b_val5), Commit("tx") >>

\* tests::set
test_set ==
    SetSetup \o
    << Begin("tx1"), Begin("tx2"),
       Set("tx1", b_key1, b_val1_1), Set("tx1", b_key2, b_val3_1), Set("tx1", b_key2, b_val3_2),
       Set("tx2", b_key3, b_val4_1), Set("tx2", b_key4, b_val5_1),
       Commit("tx1"), Commit("tx2"),
       Begin("tx"),
       AssertGet("tx", b_key1, Some(b_val1_1)),
       AssertGet("tx", b_key2, Some(b_val3_2)),
       AssertGet("tx", b_key3, Some(b_val4_1)),
       AssertGet("tx", b_key4, Some(b_val5_1)) >>

\* tests::set_conflict
test_set_conflict ==
    SetSetup \o
    << Begin("tx1"),
       Set("tx1", b_key1, b_val1_1), Set("tx1", b_key1, b_val1_2), Commit("tx1") >>

\* tests::delete
test_delete ==
    << Begin("tx"),
       Set("tx", b_key1, b_val1), Set("tx", b_key2, b_val2), Set("tx", b_key3, b_val3),
       Delete("tx", b_key2), Delete("tx", b_key3), Set("tx", b_key3, b_val3_1),
       Commit("tx"),
       Begin("tx1"),
       AssertGet("tx1", b_key2, None),
       AssertScan("tx1", b_ke, << << b_key1, b_val1 >>, << b_key3, b_val3_1 >> >>) >>

\* The three rows the remaining tests start from.
KeySetup ==
    << Begin("tx"),
       Set("tx", b_key1, b_val1), Set("tx", b_key2, b_val2), Set("tx", b_key3, b_val3),
       Commit("tx") >>

\* tests::dirty_read
test_dirty_read ==
    KeySetup \o
    << Begin("tx1"), Begin("tx2"), Set("tx2", b_key1, b_val1_1),
       AssertGet("tx1", b_key1, Some(b_val1)) >>

\* tests::unrepeatable_read
test_unrepeatable_read ==
    KeySetup \o
    << Begin("tx1"), Begin("tx2"), Set("tx2", b_key1, b_val1_1),
       AssertGet("tx1", b_key1, Some(b_val1)),
       Commit("tx2"),
       AssertGet("tx1", b_key1, Some(b_val1)) >>

ThreeRows == << << b_key1, b_val1 >>, << b_key2, b_val2 >>, << b_key3, b_val3 >> >>

\* tests::phantom_read
test_phantom_read ==
    KeySetup \o
    << Begin("tx1"), Begin("tx2"),
       AssertScan("tx1", b_key, ThreeRows),
       Set("tx2", b_key2, b_val2_1), Set("tx2", b_key4, b_val4), Commit("tx2"),
       AssertScan("tx1", b_key, ThreeRows) >>

\* tests::rollback
test_rollback ==
    KeySetup \o
    << Begin("tx1"),
       Set("tx1", b_key1, b_val1_1), Set("tx1", b_key2, b_val2_1), Set("tx1", b_key3, b_val3_1),
       Rollback("tx1"),
       Begin("tx2"),
       AssertGet("tx2", b_key1, Some(b_val1)),
       AssertGet("tx2", b_key2, Some(b_val2)),
       AssertGet("tx2", b_key3, Some(b_val3)) >>

\* A caller that writes one key from two transactions at once, the older
\* transaction second, and keeps the Results: T0 commits key1; T1, T2 begin;
\* T2 sets key1; T1 sets key1.
write_newer_active ==
    << Begin("tx"), Set("tx", b_key1, b_val1), Commit("tx"),
       Begin("tx1"), Begin("tx2"),
       Set("tx2", b_key1, b_val2),
       TrySet("tx1", b_key1, b_val3) >>

\* The same with T2 committed before T1 writes, and T1 deleting.
write_newer_committed ==
    << Begin("tx"), Set("tx", b_key1, b_val1), Commit("tx"),
       Begin("tx1"), Begin("tx2"),
       Set("tx2", b_key1, b_val2), Commit("tx2"),
       TryDelete("tx1", b_key1) >>

\* Two transactions at once, the older one writing first.
write_older_active ==
    << Begin("tx1"), Begin("tx2"),
       Set("tx1", b_key1, b_val1),
       TrySet("tx2", b_key1, b_val2) >>

\* A caller that only begins transactions, committing and rolling back between.
begin_thrice ==
    << Begin("tx1"), Begin("tx2"), Commit("tx1"), Rollback("tx2"), Begin("tx3") >>

\* A transaction reads what it has written: a key with an older committed
\* version is set, read, scanned, deleted and read again.
read_own_writes ==
    << Begin("tx"), Set("tx", b_key1, b_val1), Commit("tx"),
       Begin("tx1"), Set("tx1", b_key1, b_val2),
       AssertGet("tx1", b_key1, Some(b_val2)),
       AssertScan("tx1", b_ke, << << b_key1, b_val2 >> >>),
       Delete("tx1", b_key1),
       AssertGet("tx1", b_key1, None) >>

\* A transaction with a write of its own runs into a conflict on another key,
\* reads its earlier write and rolls back.
conflict_keeps_writes ==
    << Begin("tx1"), Set("tx1", b_key2, b_val1),
       Begin("tx2"), Set("tx2", b_key1, b_val2),
       TrySet("tx1", b_key1, b_val3),
       AssertGet("tx1", b_key2, Some(b_val1)),
       Rollback("tx1") >>

Tests ==
    { "get", "get_isolation", "scan_prefix", "scan_isolation", "set", "set_conflict",
      "delete", "dirty_read", "unrepeatable_read", "phantom_read", "rollback",
      "write_newer_active", "write_newer_committed", "write_older_active", "begin_thrice",
      "read_own_writes", "conflict_keeps_writes" }

Script(t) ==
    CASE t = "get" -> test_get
      [] t = "get_isolation" -> test_get_isolation
      [] t = "scan_prefix" -> test_scan_prefix
      [] t = "scan_isolation" -> test_scan_isolation
      [] t = "set" -> test_set
      [] t = "set_conflict" -> test_set_conflict
      [] t = "delete" -> test_delete
      [] t = "dirty_read" -> test_dirty_read
      [] t = "unrepeatable_read" -> test_unrepeatable_read
      [] t = "phantom_read" -> test_phantom_read
      [] t = "rollback" -> test_rollback
      [] t = "write_newer_active" -> write_newer_active
      [] t = "write_newer_committed" -> write_newer_committed
      [] t = "write_older_active" -> write_older_active
      [] t = "begin_thrice" -> begin_thrice
      [] t = "read_own_writes" -> read_own_writes
      [] t = "conflict_keeps_writes" -> conflict_keeps_writes

Builds == { "debug", "release" }

\* ------------------------------------------------------------------ state
\* ------------------------------------------------------------ DiskEngine
\* const LOG_HEADER_SIZE: u32 = 8
LOG_HEADER_SIZE == 8

\* u32::to_be_bytes / i32::to_be_bytes (two's complement) and their inverses.
u32_to_be_bytes(n) == [i \in 1..4 |-> (n \div (256 ^ (4 - i))) % 256]
i32_to_be_bytes(n) ==
    IF n >= 0 THEN u32_to_be_bytes(n)
    ELSE [i \in 1..4 |-> 255 - u32_to_be_bytes(-n - 1)[i]]
u32_from_be_bytes(b) == b[1] * 16777216 + b[2] * 65536 + b[3] * 256 + b[4]
i32_from_be_bytes(b) ==
    IF b[1] < 128 THEN u32_from_be_bytes(b)
    ELSE -u32_from_be_bytes([i \in 1..4 |-> 255 - b[i]]) - 1

\* Log::write_entry: the entry goes to the end of the file; (offset, entry_size).
\* value is an Option: None writes the length -1 and no value bytes.
write_entry(file, key, value) ==
    LET key_size == Len(key)
        value_size == IF value = None THEN 0 ELSE Len(value[1])
        entry_size == key_size + value_size + LOG_HEADER_SIZE
    IN  [file |-> file \o u32_to_be_bytes(key_size)
                       \o i32_to_be_bytes(IF value = None THEN -1 ELSE Len(value[1]))
                       \o key
                       \o (IF value = None THEN << >> ELSE value[1]),
         offset |-> Len(file), size |-> entry_size]

\* Log::read_entry: size bytes from offset (read_exact fails past the end).
read_entry(file, offset, size) ==
    IF offset + size > Len(file) THEN [ok |-> FALSE, value |-> << >>]
    ELSE [ok |-> TRUE, value |-> SubSeq(file, offset + 1, offset + size)]

\* Log::read_value: the key and the value length of the entry at offset.
read_value(file, offset) ==
    IF offset + LOG_HEADER_SIZE > Len(file) THEN [ok |-> FALSE, key |-> << >>, value_size |-> 0]
    ELSE LET key_size == u32_from_be_bytes(SubSeq(file, offset + 1, offset + 4))
             value_size == i32_from_be_bytes(SubSeq(file, offset + 5, offset + 8))
         IN  IF offset + LOG_HEADER_SIZE + key_size > Len(file)
             THEN [ok |-> FALSE, key |-> << >>, value_size |-> 0]
             ELSE [ok |-> TRUE, value_size |-> value_size,
                   key |-> SubSeq(file, offset + LOG_HEADER_SIZE + 1,
                                  offset + LOG_HEADER_SIZE + key_size)]

\* KeyDir = BTreeMap<Vec<u8>, (u64, u32)>: insert and remove.
KeyDir_insert(keydir, key, offset, size) ==
    [k \in (DOMAIN keydir) \cup {key} |-> IF k = key THEN << offset, size >> ELSE keydir[k]]

KeyDir_remove(keydir, key) == [k \in (DOMAIN keydir) \ {key} |-> keydir[k]]

\* The replay with tombstones skipped and their keys kept.
RECURSIVE build_keydir_loop_keeps_deleted(_, _, _)
build_keydir_loop_keeps_deleted(file, offset, keydir) ==
    IF offset >= Len(file) THEN [ok |-> TRUE, keydir |-> keydir]
    ELSE LET e == read_value(file, offset)
             key_size == Len(e.key)
         IN  IF ~e.ok THEN [ok |-> FALSE, keydir |-> keydir]
             ELSE IF e.value_size = -1
             THEN build_keydir_loop_keeps_deleted(file,
                                                  offset + LOG_HEADER_SIZE + key_size, keydir)
             ELSE build_keydir_loop_keeps_deleted(file,
                      offset + LOG_HEADER_SIZE + key_size + e.value_size,
                      KeyDir_insert(keydir, e.key, offset + LOG_HEADER_SIZE + key_size,
                                    e.value_size))

\* Log::build_keydir, its loop from offset on.
RECURSIVE build_keydir_loop(_, _, _)
build_keydir_loop(file, offset, keydir) ==
    IF offset >= Len(file) THEN [ok |-> TRUE, keydir |-> keydir]
    ELSE LET e == read_value(file, offset)
             key_size == Len(e.key)
         IN  IF ~e.ok THEN [ok |-> FALSE, keydir |-> keydir]
             ELSE IF e.value_size = -1
             THEN build_keydir_loop(file, offset + LOG_HEADER_SIZE + key_size,
                                    KeyDir_remove(keydir, e.key))
             ELSE build_keydir_loop(file,
                                    offset + LOG_HEADER_SIZE + key_size + e.value_size,
                                    KeyDir_insert(keydir, e.key,
                                                  offset + LOG_HEADER_SIZE + key_size,
                                                  e.value_size))

build_keydir(file) == build_keydir_loop(file, 0, << >>)

\* set with the directory pointing at the start of the entry.
DiskEngine_set_entry_offset(file, keydir, key, value) ==
    LET w == write_entry(file, key, Some(value)) IN
    [file |-> w.file, keydir |-> KeyDir_insert(keydir, key, w.offset, Len(value))]

\* DiskEngine::set: write the entry, point the directory at its value bytes.
DiskEngine_set(file, keydir, key, value) ==
    LET w == write_entry(file, key, Some(value))
        val_size == Len(value)
    IN  [file |-> w.file,
         keydir |-> KeyDir_insert(keydir, key, w.offset + w.size - val_size, val_size)]

\* delete with the key left in the directory.
DiskEngine_delete_keeps_key(file, keydir, key) ==
    [file |-> write_entry(file, key, None).file, keydir |-> keydir]

\* DiskEngine::delete: write the tombstone, remove the key.
DiskEngine_delete(file, keydir, key) ==
    [file |-> write_entry(file, key, None).file, keydir |-> KeyDir_remove(keydir, key)]

\* DiskEngine::get
DiskEngine_get(file, keydir, key) ==
    IF key \in DOMAIN keydir
    THEN LET r == read_entry(file, keydir[key][1], keydir[key][2]) IN
         IF r.ok THEN [tag |-> "Ok", val |-> Some(r.value)]
         ELSE [tag |-> "Err", val |-> None]
    ELSE [tag |-> "Ok", val |-> None]

\* Bound<Vec<u8>> and a key's place in a range of two bounds.
Unbounded == [bound |-> "Unbounded", key |-> << >>]
Included(key) == [bound |-> "Included", key |-> key]
Excluded(key) == [bound |-> "Excluded", key |-> key]

InRange(key, lo, hi) ==
    /\ CASE lo.bound = "Unbounded" -> TRUE
         [] lo.bound = "Included" -> LexLeq(lo.key, key)
         [] lo.bound = "Excluded" -> LexLess(lo.key, key)
    /\ CASE hi.bound = "Unbounded" -> TRUE
         [] hi.bound = "Included" -> LexLeq(key, hi.key)
         [] hi.bound = "Excluded" -> LexLess(key, hi.key)

\* BTreeMap::range panics when the start is past the end, or equal to it with
\* both bounds excluded.
RangePanics(lo, hi) ==
    /\ lo.bound # "Unbounded" /\ hi.bound # "Unbounded"
    /\ \/ LexLess(hi.key, lo.key)
       \/ lo.key = hi.key /\ lo.bound = "Excluded" /\ hi.bound = "Excluded"

Reverse(s) == [i \in 1..Len(s) |-> s[Len(s) + 1 - i]]

\* DiskEngine::scan collected: keydir.range(range), each key with the value
\* read from the log; from the front (next) or from the back (next_back).
DiskEngine_scan(file, keydir, lo, hi, back) ==
    IF RangePanics(lo, hi) THEN [tag |-> "Panic", val |-> << >>]
    ELSE LET keys == Ascending({ k \in DOMAIN keydir : InRange(k, lo, hi) })
             read(k) == read_entry(file, keydir[k][1], keydir[k][2])
             items == [i \in 1..Len(keys) |-> << keys[i], read(keys[i]).value >>]
         IN  IF \E i \in 1..Len(keys) : ~read(keys[i]).ok
             THEN [tag |-> "Err", val |-> << >>]
             ELSE [tag |-> "Ok", val |-> IF back THEN Reverse(items) ELSE items]

\* Engine::scan_prefix on a DiskEngine: the end bound is the prefix with
\* `*last += 1`, which panics on 0xFF in a debug build and wraps to 0x00 in a
\* release build.
DiskEngine_scan_prefix(file, keydir, prefix, profile) ==
    LET n == Len(prefix) IN
    IF n > 0 /\ prefix[n] = 255 /\ profile = "debug" THEN [tag |-> "Panic", val |-> << >>]
    ELSE DiskEngine_scan(file, keydir, Included(prefix),
                         Excluded(IF n = 0 THEN prefix
                                  ELSE [prefix EXCEPT ![n] = (prefix[n] + 1) % 256]),
                         FALSE)

\* Engines (processes) that open the log file, the set and delete calls and the
\* DiskEngine::new / new_compact calls they make.
MaxHandles == 2
MaxOps == 3
MaxOpens == 3

Handles == 1..MaxHandles

\* The files: the log file and its sibling with the extension "compact".
Paths == { "log", "compact" }

\* Files that can exist at once: the two paths and one unlinked file per
\* engine that still holds it.
Inodes == 1..(MaxHandles + 2)

\* An engine that is not open.
Closed ==
    [pc |-> "closed", keydir |-> << >>, log |-> 0, new_log |-> 0, new_keydir |-> << >>,
     replayed |-> FALSE, compacted |-> FALSE, before |-> << >>]

\* The read an engine has just answered, with its result, until the caller has
\* taken it (NoRead: none).
NoRead ==
    [op |-> "none", key |-> << >>, lo |-> Unbounded, hi |-> Unbounded, back |-> FALSE,
     tag |-> "Ok", val |-> << >>]

\* No file exists, no engine is open.
NoDisk ==
    [paths |-> [p \in Paths |-> 0],
     data |-> [i \in Inodes |-> << >>],
     locked |-> [i \in Inodes |-> 0],
     h |-> [x \in Handles |-> Closed],
     ops |-> 0, opens |-> 0, refused |-> 0,
     at_close |-> << >>,
     observed |-> NoRead]

\* Log::new with the outcome of try_lock_exclusive ignored.
Log_new_unlocked(d, x, path) ==
    LET free == { i \in Inodes : /\ \A p \in Paths : d.paths[p] # i
                                 /\ \A y \in Handles : d.h[y].log # i /\ d.h[y].new_log # i }
        inode == IF d.paths[path] # 0 THEN d.paths[path] ELSE Min(free)
        opened == IF d.paths[path] # 0 THEN d
                  ELSE [d EXCEPT !.paths[path] = inode, !.data[inode] = << >>]
    IN  [ok |-> TRUE, d |-> [opened EXCEPT !.locked[inode] = x], inode |-> inode]

\* Log::new: create the file if absent, open it, try_lock_exclusive; an error
\* when the lock is held.  The files afterwards and the file opened.
Log_new(d, x, path) ==
    LET free == { i \in Inodes : /\ \A p \in Paths : d.paths[p] # i
                                 /\ \A y \in Handles : d.h[y].log # i /\ d.h[y].new_log # i }
        inode == IF d.paths[path] # 0 THEN d.paths[path] ELSE Min(free)
        opened == IF d.paths[path] # 0 THEN d
                  ELSE [d EXCEPT !.paths[path] = inode, !.data[inode] = << >>]
    IN  IF opened.locked[inode] # 0
        THEN [ok |-> FALSE, d |-> opened, inode |-> inode]
        ELSE [ok |-> TRUE, d |-> [opened EXCEPT !.locked[inode] = x], inode |-> inode]

\* The rewrite with the new directory pointing at the start of each entry.
RECURSIVE compact_loop_entry_offset(_, _, _, _, _)
compact_loop_entry_offset(keys, file, keydir, new_file, new_keydir) ==
    IF keys = << >> THEN [ok |-> TRUE, new_file |-> new_file, new_keydir |-> new_keydir]
    ELSE LET key == Head(keys)
             size == keydir[key][2]
             value == read_entry(file, keydir[key][1], size)
             w == write_entry(new_file, key, Some(value.value))
         IN  IF ~value.ok
             THEN [ok |-> FALSE, new_file |-> new_file, new_keydir |-> new_keydir]
             ELSE compact_loop_entry_offset(Tail(keys), file, keydir, w.file,
                                            KeyDir_insert(new_keydir, key, w.offset, size))

\* DiskEngine::compact, its loop over the directory in key order: each value
\* is read from the log and written to the new log.
RECURSIVE compact_loop(_, _, _, _, _)
compact_loop(keys, file, keydir, new_file, new_keydir) ==
    IF keys = << >> THEN [ok |-> TRUE, new_file |-> new_file, new_keydir |-> new_keydir]
    ELSE LET key == Head(keys)
             size == keydir[key][2]
             value == read_entry(file, keydir[key][1], size)
             w == write_entry(new_file, key, Some(value.value))
         IN  IF ~value.ok
             THEN [ok |-> FALSE, new_file |-> new_file, new_keydir |-> new_keydir]
             ELSE compact_loop(Tail(keys), file, keydir, w.file,
                               KeyDir_insert(new_keydir, key,
                                             w.offset + w.size - size, size))

VARIABLES
    engine,     \* the contents of the engine behind the Arc<Mutex<E>>
    poisoned,   \* a call panicked with the mutex held
    build,      \* the build profile (overflow checks on or off)
    test,       \* the driver that is running
    ip,         \* the index of its next statement
    txns,       \* its locals: name -> MvccTransactionStat
    results,    \* the result of each statement it has executed
    status,     \* "running", "failed" (left through `?`, an assert or a panic), "passed"
    runs,       \* the number of drivers started
    issued,     \* the versions successful begins have returned, in order
    kv,         \* the store of the Mvcc behind a KVEngine (crate::storage::mvcc)
    sessions,   \* per client session: the Session::execute call it is in
    disk        \* the files of the DiskEngines and the engines that hold them

vars == << engine, poisoned, build, test, ip, txns, results, status, runs, issued,
           kv, sessions, disk >>

Init ==
    /\ engine = EmptyEngine
    /\ poisoned = FALSE
    /\ build \in Builds
    /\ test \in Tests
    /\ ip = 1
    /\ txns = << >>
    /\ results = << >>
    /\ status = "running"
    /\ runs = 1
    /\ issued = << >>
    /\ kv = << >>
    /\ sessions = << >>
    /\ disk = NoDisk

\* `let tx = ...`: bind (or shadow) a local.
Bind(locals, tx, state) ==
    [t \in (DOMAIN locals) \cup {tx} |-> IF t = tx THEN state ELSE locals[t]]

\* One call with the mutex held (every method starts with self.engine.lock()?).
Call(stmt, data, locals, bld) ==
    CASE stmt.op = "begin" -> begin(data)
      [] stmt.op = "set" -> write_inner(data, locals[stmt.tx], stmt.key, Some(stmt.value))
      [] stmt.op = "delete" -> write_inner(data, locals[stmt.tx], stmt.key, None)
      [] stmt.op = "get" -> get(data, locals[stmt.tx], stmt.key)
      [] stmt.op = "scan_prefix" -> scan_prefix(data, locals[stmt.tx], stmt.key, bld)
      [] stmt.op = "commit" -> commit(data, locals[stmt.tx])
      [] stmt.op = "rollback" -> rollback(data, locals[stmt.tx])

\* The driver executes its next statement.
Step ==
    /\ status = "running"
    /\ LET stmt == Script(test)[ip]
           r == IF poisoned THEN Err(engine, "Internal")
                ELSE Call(stmt, engine, txns, build)
           leaves == \/ r.tag = "Panic"
                     \/ r.tag = "Err" /\ stmt.try
                     \/ r.tag = "Ok" /\ stmt.assert /\ r.val # stmt.want
       IN  /\ engine' = r.data
           /\ poisoned' = (poisoned \/ r.tag = "Panic")
           /\ txns' = IF stmt.op = "begin" /\ r.tag = "Ok"
                      THEN Bind(txns, stmt.tx, r.val) ELSE txns
           /\ issued' = IF stmt.op = "begin" /\ r.tag = "Ok"
                        THEN Append(issued, r.val.version) ELSE issued
           /\ results' = Append(results, [tag |-> r.tag, err |-> r.err, val |-> r.val])
           /\ status' = IF leaves THEN "failed"
                        ELSE IF ip = Len(Script(test)) THEN "passed"
                        ELSE "running"
           /\ ip' = IF leaves THEN ip ELSE ip + 1
    /\ UNCHANGED << build, test, runs, kv, sessions, disk >>

\* Another driver starts on the same Mvcc (the engine is shared by clone()).
NewRun ==
    /\ status # "running"
    /\ runs < MaxRuns
    /\ test' \in Tests
    /\ ip' = 1
    /\ txns' = << >>
    /\ results' = << >>
    /\ status' = "running"
    /\ runs' = runs + 1
    /\ UNCHANGED << engine, poisoned, build, issued, kv, sessions, disk >>

Next == Step \/ NewRun

Spec == Init /\ [][Next]_vars

\* ------------------------------------------------- is_visible on its own
\* MvccTransactionStat is a public, decodable type and is_visible a public
\* method of it.  It is applied here to the states of the shape begin builds:
\* active_versions is collected before the transaction's own TxnActive entry
\* is written, from transactions begun earlier, so it holds smaller versions.
Stats ==
    UNION { { [version |-> v, active_versions |-> a] : a \in SUBSET (1..(v - 1)) } :
            v \in 1..MaxVersion }

InitVisible ==
    /\ engine = EmptyEngine
    /\ poisoned = FALSE
    /\ build \in Builds
    /\ test = "is_visible"
    /\ ip = 1
    /\ txns \in [{"self"} -> Stats]
    /\ results = << >>
    /\ status = "running"
    /\ runs = 1
    /\ issued = << >>
    /\ kv = << >>
    /\ sessions = << >>
    /\ disk = NoDisk

\* self.is_visible(version); the result is recorded with its argument.
CallVisible ==
    /\ status = "running"
    /\ \E version \in 0..(MaxVersion + 1) :
          results' = Append(results,
                            [tag |-> "Ok", err |-> "",
                             val |-> << version, is_visible(txns["self"], version) >>])
    /\ status' = "passed"
    /\ ip' = ip + 1
    /\ UNCHANGED << engine, poisoned, build, test, txns, runs, issued, kv, sessions, disk >>

SpecVisible == InitVisible /\ [][CallVisible]_vars

\* ------------------------------------------------------------ the SQL layer
\* sql/engine/kv.rs runs on crate::storage::mvcc and crate::storage::keycode,
\* which are not among the source files (sql/storage/mvcc.rs is the module
\* crate::sql::storage::mvcc).  The Mvcc behind a KVEngine follows the
\* description of the MVCC layer: NextVersion, the TxnActive set, the TxnWrite
\* records and the Version(key, version) entries, each a component of kv.
\* Keys are kept as the typed keys of kv.rs: the key codec is order-preserving
\* and self-delimiting, so encoded keys compare as the typed keys do.

\* sql/types: Value.  Strings are numbered.
Null == [type |-> "Null", v |-> 0]
Integer(i) == [type |-> "Integer", v |-> i]
String(i) == [type |-> "String", v |-> i]

\* Value::get_type: None for Null.
get_type(value) == IF value.type = "Null" THEN None ELSE Some(value.type)

\* enum TransactionKey and enum KeyPrefix
TableName(name) == [tag |-> "TableName", name |-> name, pk |-> Null]
RowKey(table_name, pk) == [tag |-> "RowKey", name |-> table_name, pk |-> pk]
KeyPrefix_Row(table_name) == [tag |-> "RowKey", name |-> table_name]
KeyPrefix_Table == [tag |-> "TableName", name |-> ""]

\* bincode of a Table and of a Row, as stored, and their decoding.
encode_table(table) == [name |-> table.name, columns |-> table.columns, row |-> << >>]
encode_row(row) == [name |-> "", columns |-> << >>, row |-> row]
decode_table(value) == [name |-> value.name, columns |-> value.columns]
decode_row(value) == value.row

\* The empty store: NextVersion absent (read as 1), nothing else.
EmptyKv == [next_version |-> 1, active |-> {}, writes |-> {}, versions |-> {}]

\* Mvcc::begin
kv_begin(store) ==
    LET version == store.next_version IN
    [store |-> [store EXCEPT !.next_version = version + 1,
                             !.active = @ \cup {version}],
     txn |-> [version |-> version, active_versions |-> store.active]]

\* The visibility predicate of the MVCC layer.
txn_is_visible(txn, version) ==
    IF version = txn.version THEN TRUE
    ELSE IF version \in txn.active_versions THEN FALSE
    ELSE version < txn.version

Max(S) == CHOOSE x \in S : \A y \in S : y <= x

\* MvccTransaction::set / delete: value is Some(payload) or None.
txn_write(store, txn, key, value) ==
    LET v_min == IF txn.active_versions # {} THEN Min(txn.active_versions)
                 ELSE txn.version + 1
        found == { e.version : e \in { e \in store.versions :
                                          e.key = key /\ e.version >= v_min } }
    IN  IF found # {} /\ ~txn_is_visible(txn, Max(found))
        THEN [ok |-> FALSE, err |-> "WriteMvccConflict", store |-> store]
        ELSE [ok |-> TRUE, err |-> "",
              store |-> [store EXCEPT
                  !.writes = @ \cup { << txn.version, key >> },
                  !.versions = { e \in @ : ~(e.key = key /\ e.version = txn.version) }
                               \cup { [key |-> key, version |-> txn.version,
                                       value |-> value] }]]

\* MvccTransaction::get: the newest visible version at or below the
\* transaction's own; its payload (None for a tombstone or no version).
txn_get(store, txn, key) ==
    LET seen == { e \in store.versions :
                     /\ e.key = key /\ e.version <= txn.version
                     /\ txn_is_visible(txn, e.version) }
    IN  IF seen = {} THEN None
        ELSE (CHOOSE e \in seen : \A f \in seen : f.version <= e.version).value

\* str::as_bytes of the table names used here; String(i) stands for the text
\* of the one character 48 + i.
as_bytes(name) ==
    CASE name = "" -> << >>
      [] name = "t" -> << 116 >>
      [] name = "t1" -> << 116, 49 >>
      [] name = "u" -> << 117 >>

\* keycode::serializer on a Value: the variant index, then bool as one byte,
\* i64 as eight big-endian bytes, a str as its bytes with nothing after them.
Value_encode(value) ==
    CASE value.type = "Null" -> << 0 >>
      [] value.type = "Boolean" -> << 1, value.v >>
      [] value.type = "Integer" -> << 2 >> \o to_be_bytes(value.v)
      [] value.type = "String" -> << 4, 48 + value.v >>

\* TransactionKey::encode and KeyPrefix::encode: the variant index, then each
\* field; serialize_str writes the bytes of a String with no length and no
\* terminator.
TransactionKey_encode(key) ==
    IF key.tag = "TableName" THEN << 0 >> \o as_bytes(key.name)
    ELSE << 1 >> \o as_bytes(key.name) \o Value_encode(key.pk)

KeyPrefix_encode(prefix) ==
    IF prefix.tag = "TableName" THEN << 0 >> ELSE << 1 >> \o as_bytes(prefix.name)

\* starts_with on encoded keys.
starts_with(key, prefix) ==
    Len(key) >= Len(prefix) /\ SubSeq(key, 1, Len(prefix)) = prefix

\* The order of the encoded keys.
KeyLess(k1, k2) == LexLess(TransactionKey_encode(k1), TransactionKey_encode(k2))

RECURSIVE InKeyOrder(_)
InKeyOrder(S) ==
    IF S = {} THEN << >>
    ELSE LET m == CHOOSE x \in S : \A y \in S : y = x \/ KeyLess(x, y)
         IN  << m >> \o InKeyOrder(S \ {m})

\* MvccTransaction::scan_prefix: for each key under the prefix the newest
\* visible version; tombstones dropped; the values in key order.
txn_scan_prefix(store, txn, prefix) ==
    LET seen == { e \in store.versions :
                     /\ starts_with(TransactionKey_encode(e.key), KeyPrefix_encode(prefix))
                     /\ txn_is_visible(txn, e.version) }
        newest == { e \in seen : \A f \in seen : f.key = e.key => f.version <= e.version }
        live == { e \in newest : e.value # None }
        keys == InKeyOrder({ e.key : e \in live })
    IN  [i \in 1..Len(keys) |-> (CHOOSE e \in live : e.key = keys[i]).value[1]]

\* MvccTransaction::commit: the TxnWrite records and the TxnActive entry go.
txn_commit(store, txn) ==
    [store EXCEPT !.writes = { w \in @ : w[1] # txn.version },
                  !.active = @ \ {txn.version}]

\* MvccTransaction::rollback: the Version entries of its TxnWrite records go
\* as well.
txn_rollback(store, txn) ==
    [store EXCEPT
        !.versions = { e \in @ : ~(e.version = txn.version
                                   /\ << txn.version, e.key >> \in store.writes) },
        !.writes = { w \in @ : w[1] # txn.version },
        !.active = @ \ {txn.version}]

\* sql/parser/ast: a column of CREATE TABLE as parsed (nullable and default
\* are Options), and the statements used here.
AstColumn(name, data_type, nullable, default, is_primary_key) ==
    [name |-> name, data_type |-> data_type, nullable |-> nullable,
     default |-> default, is_primary_key |-> is_primary_key]

CreateTableStmt(name, columns) ==
    [kind |-> "CreateTable", name |-> name, columns |-> columns,
     values |-> << >>, limit |-> None, set |-> {}, names |-> << >>, filter |-> None]
InsertStmt(table_name, values) ==
    [kind |-> "Insert", name |-> table_name, columns |-> << >>,
     values |-> values, limit |-> None, set |-> {}, names |-> << >>, filter |-> None]
\* INSERT INTO table_name(columns) VALUES ...: columns are names.
InsertColumnsStmt(table_name, columns, values) ==
    [kind |-> "Insert", name |-> table_name, columns |-> << >>,
     values |-> values, limit |-> None, set |-> {}, names |-> columns, filter |-> None]
SelectStmt(table_name, limit) ==
    [kind |-> "Select", name |-> table_name, columns |-> << >>,
     values |-> << >>, limit |-> limit, set |-> {}, names |-> << >>, filter |-> None]
\* UPDATE table_name SET ...: set is the BTreeMap of column name to value, as
\* a set of pairs.  DELETE FROM table_name.
UpdateStmt(table_name, set) ==
    [kind |-> "Update", name |-> table_name, columns |-> << >>,
     values |-> << >>, limit |-> None, set |-> set, names |-> << >>, filter |-> None]
DeleteStmt(table_name) ==
    [kind |-> "Delete", name |-> table_name, columns |-> << >>,
     values |-> << >>, limit |-> None, set |-> {}, names |-> << >>, filter |-> None]
\* The same statements with a WHERE clause: where_clause is Some(expressions).
Where(stmt, where_clause) == [stmt EXCEPT !.filter = Some(where_clause)]
\* Session::get_table(table_name) and Session::get_table_names(), as calls.
GetTableCall(table_name) ==
    [kind |-> "GetTable", name |-> table_name, columns |-> << >>,
     values |-> << >>, limit |-> None, set |-> {}, names |-> << >>, filter |-> None]
GetTableNamesCall ==
    [kind |-> "GetTableNames", name |-> "", columns |-> << >>,
     values |-> << >>, limit |-> None, set |-> {}, names |-> << >>, filter |-> None]
\* A text Parser::parse rejects.
Unparsable ==
    [kind |-> "Unparsable", name |-> "", columns |-> << >>,
     values |-> << >>, limit |-> None, set |-> {}, names |-> << >>, filter |-> None]

\* Planner::build_statement, CreateTable arm: the schema Column of a parsed one.
PlanColumn(c) ==
    LET nullable == IF c.nullable # None THEN c.nullable[1] ELSE ~c.is_primary_key IN
    [name |-> c.name, data_type |-> c.data_type, nullable |-> nullable,
     default_value |-> IF c.default # None THEN c.default
                       ELSE IF nullable THEN Some(Null) ELSE None,
     is_primary_key |-> c.is_primary_key]

\* Planner::build_statement: Ok(node) or Err.  LIMIT must be an integer literal.
build_statement(stmt) ==
    CASE stmt.kind = "CreateTable" ->
            [ok |-> TRUE, err |-> "",
             node |-> [kind |-> "CreateTable",
                       schema |-> [name |-> stmt.name,
                                   columns |-> [i \in 1..Len(stmt.columns) |->
                                                   PlanColumn(stmt.columns[i])]]]]
      [] stmt.kind = "Insert" ->
            [ok |-> TRUE, err |-> "", node |-> [kind |-> "Insert"]]
      [] stmt.kind = "Select" ->
            IF stmt.limit # None /\ stmt.limit[1].type # "Integer"
            THEN [ok |-> FALSE, err |-> "Internal", node |-> [kind |-> "Scan"]]
            ELSE [ok |-> TRUE, err |-> "", node |-> [kind |-> "Scan"]]
      [] stmt.kind = "Update" ->
            [ok |-> TRUE, err |-> "", node |-> [kind |-> "Update"]]
      [] stmt.kind = "Delete" ->
            [ok |-> TRUE, err |-> "", node |-> [kind |-> "Delete"]]

\* Table::validate: "" when valid, else the error.
validate(table) ==
    LET n == Len(table.columns)
        pks == Cardinality({ i \in 1..n : table.columns[i].is_primary_key })
        bad(c) ==
            \/ c.name = ""
            \/ c.nullable /\ c.default_value = None
            \/ /\ c.default_value # None
               /\ get_type(c.default_value[1]) # None
               /\ get_type(c.default_value[1])[1] # c.data_type
    IN  IF n = 0 THEN "Internal"
        ELSE IF pks # 1 THEN "Internal"
        ELSE IF \E i \in 1..n : bad(table.columns[i]) THEN "Internal"
        ELSE ""

\* Table::get_primary_key: the row's value at the first primary-key column.
get_primary_key(table, row) ==
    row[Min({ i \in 1..Len(table.columns) : table.columns[i].is_primary_key })]

\* insert.rs pad_row: the missing trailing columns take their defaults.
pad_row(table, row) ==
    LET missing == { i \in 1..Len(table.columns) : i > Len(row) } IN
    IF \E i \in missing : table.columns[i].default_value = None
    THEN [ok |-> FALSE, err |-> "Internal", row |-> row]
    ELSE [ok |-> TRUE, err |-> "",
          row |-> [i \in 1..(IF Len(row) > Len(table.columns) THEN Len(row)
                             ELSE Len(table.columns)) |->
                      IF i <= Len(row) THEN row[i]
                      ELSE table.columns[i].default_value[1]]]

\* insert.rs make_row: the keys of the HashMap `inputs`, which are the listed
\* names and the names of the table's columns that are not listed.
make_row_keys(table, columns) ==
    { columns[i] : i \in 1..Len(columns) }
        \cup { table.columns[i].name : i \in 1..Len(table.columns) }

\* The orders in which a HashMap with these keys can yield them: HashMap
\* iterates in an order of its hasher, which is seeded anew for each map.
Orders(keys) ==
    { o \in [1..Cardinality(keys) -> keys] :
        \A i, j \in 1..Cardinality(keys) : o[i] = o[j] => i = j }

\* insert.rs make_row: a listed column maps to its value (the last one when
\* listed twice), a column that is not listed to its default, and the row is
\* inputs.values() in the order the map yields them.
make_row(table, columns, values, order) ==
    LET listed == { columns[i] : i \in 1..Len(columns) }
        missing == { i \in 1..Len(table.columns) : table.columns[i].name \notin listed }
        input(name) ==
            IF name \in listed
            THEN values[Max({ i \in 1..Len(columns) : columns[i] = name })]
            ELSE (CHOOSE c \in { table.columns[i] : i \in missing } :
                      c.name = name).default_value[1]
    IN  IF Len(columns) # Len(values)
        THEN [ok |-> FALSE, err |-> "Internal", row |-> values]
        ELSE IF \E i \in missing : table.columns[i].default_value = None
        THEN [ok |-> FALSE, err |-> "Internal", row |-> values]
        ELSE [ok |-> TRUE, err |-> "", row |-> [i \in 1..Len(order) |-> input(order[i])]]

\* InsertExecutor::execute, one row up to the call of create_row: pad it, or
\* make it from the column list, then the null and type check of the columns
\* that are not nullable.
insert_row(table, columns, row, order) ==
    LET p == IF columns = << >> THEN pad_row(table, row)
             ELSE make_row(table, columns, row, order)
        wrong(i) ==
            /\ ~table.columns[i].nullable
            /\ \/ get_type(p.row[i]) = None
               \/ get_type(p.row[i])[1] # table.columns[i].data_type
    IN  IF ~p.ok THEN p
        ELSE IF \E i \in 1..Len(table.columns) : wrong(i)
        THEN [ok |-> FALSE, err |-> "Internal", row |-> p.row]
        ELSE p

\* The check of the row with the nullable columns skipped, as in
\* InsertExecutor::execute alone.
row_valid_skips_nullable(table, row) ==
    \A i \in 1..Len(table.columns) :
        \/ table.columns[i].nullable
        \/ get_type(row[i]) = Some(table.columns[i].data_type)

\* KVTransaction::create_row, its check of the row against the columns.
row_valid(table, row) ==
    \A i \in 1..Len(table.columns) :
        IF get_type(row[i]) = None THEN table.columns[i].nullable
        ELSE get_type(row[i])[1] = table.columns[i].data_type

\* ----------------------------------------- values and expressions
\* Value::Float: an f64, kept in twelfths so that the sums and the quotients
\* of the integers used here are exact.
Float(twelfths) == [type |-> "Float", v |-> twelfths]
AsF64(i) == 12 * i

\* impl PartialOrd for Value: "Less", "Equal", "Greater", or "None".
Ord(a, b) == IF a < b THEN "Less" ELSE IF a = b THEN "Equal" ELSE "Greater"
partial_cmp(x, y) ==
    CASE x.type = "Null" /\ y.type = "Null" -> "Equal"
      [] x.type = "Null" /\ y.type # "Null" -> "Less"
      [] x.type # "Null" /\ y.type = "Null" -> "Greater"
      [] x.type = "Integer" /\ y.type = "Integer" -> Ord(x.v, y.v)
      [] x.type = "Integer" /\ y.type = "Float" -> Ord(AsF64(x.v), y.v)
      [] x.type = "Float" /\ y.type = "Float" -> Ord(x.v, y.v)
      [] x.type = "Float" /\ y.type = "Integer" -> Ord(x.v, AsF64(y.v))
      [] x.type = "String" /\ y.type = "String" -> Ord(x.v, y.v)
      [] OTHER -> "None"

\* The position of a column name in a list of names: 0 when it is not there.
position(columns, name) ==
    IF \E i \in 1..Len(columns) : columns[i] = name
    THEN Min({ i \in 1..Len(columns) : columns[i] = name })
    ELSE 0

\* Expressions: a column, an aggregate function of a column, l = r.
Field(name) == [kind |-> "Field", func |-> "", name |-> name]
Function(func, name) == [kind |-> "Function", func |-> func, name |-> name]
Equal(left, right) == [kind |-> "Equal", left |-> left, right |-> right]
Boolean(b) == [type |-> "Boolean", v |-> IF b THEN 1 ELSE 0]

\* What an executor returns: Ok(ResultSet::Scan), Err, or a panic.
ScanOk(columns, rows) == [tag |-> "Ok", err |-> "", columns |-> columns, rows |-> rows]
ScanErr(err) == [tag |-> "Err", err |-> err, columns |-> << >>, rows |-> << >>]
ScanPanic == [tag |-> "Panic", err |-> "", columns |-> << >>, rows |-> << >>]

\* Expression::Consts and the other variants of Operation.
Consts(value) == [kind |-> "Consts", value |-> value]
NotEqual(left, right) == [kind |-> "NotEqual", left |-> left, right |-> right]
GreaterThan(left, right) == [kind |-> "GreaterThan", left |-> left, right |-> right]
LessThan(left, right) == [kind |-> "LessThan", left |-> left, right |-> right]

\* The match on (left_val, right_val) of one Operation: the pairs of one type
\* and the pairs of Integer and Float are compared, a Null on either side
\* gives Null, any other pair is an error.
compare_values(kind, l, r) ==
    LET numeric == { "Integer", "Float" }
        holds(ord) == CASE kind = "Equal" -> ord = "Equal"
                        [] kind = "NotEqual" -> ord # "Equal"
                        [] kind = "GreaterThan" -> ord = "Greater"
                        [] kind = "LessThan" -> ord = "Less"
    IN  IF l.type \in numeric /\ r.type \in numeric
        THEN [ok |-> TRUE, val |-> Boolean(holds(partial_cmp(l, r)))]
        ELSE IF l.type = r.type /\ l.type # "Null"
        THEN [ok |-> TRUE, val |-> Boolean(holds(Ord(l.v, r.v)))]
        ELSE IF l.type = "Null" \/ r.type = "Null"
        THEN [ok |-> TRUE, val |-> Null]
        ELSE [ok |-> FALSE, val |-> Null]

\* parser/ast.rs evaluate_expr: a Field is looked up in left_col only; the
\* left operand of an Operation is evaluated with the contexts as given, the
\* right operand with the two contexts swapped; a Function is an error.
RECURSIVE evaluate_expr(_, _, _, _, _)
evaluate_expr(expression, left_col, left_row, right_col, right_row) ==
    CASE expression.kind = "Field" ->
            IF position(left_col, expression.name) = 0 THEN [ok |-> FALSE, val |-> Null]
            ELSE [ok |-> TRUE, val |-> left_row[position(left_col, expression.name)]]
      [] expression.kind = "Consts" -> [ok |-> TRUE, val |-> expression.value]
      [] expression.kind = "Function" -> [ok |-> FALSE, val |-> Null]
      [] OTHER ->
            LET left_val == evaluate_expr(expression.left, left_col, left_row,
                                          right_col, right_row)
                right_val == evaluate_expr(expression.right, right_col, right_row,
                                           left_col, left_row)
            IN  IF ~left_val.ok THEN left_val
                ELSE IF ~right_val.ok THEN right_val
                ELSE compare_values(expression.kind, left_val.val, right_val.val)

\* KVTransaction::scan_table, the loop over the filters for one row: the row
\* is pushed at each filter that evaluates to Boolean(true); Null and
\* Boolean(false) push nothing; any other value and any error end the scan.
RECURSIVE filter_row(_, _, _, _)
filter_row(table_cols, row, filters, i) ==
    IF i > Len(filters) THEN [tag |-> "Ok", rows |-> << >>]
    ELSE LET v == evaluate_expr(filters[i], table_cols, row, table_cols, row)
             rest == filter_row(table_cols, row, filters, i + 1)
         IN  IF ~v.ok \/ v.val.type \notin { "Boolean", "Null" }
             THEN [tag |-> "Err", rows |-> << >>]
             ELSE IF rest.tag # "Ok" THEN rest
             ELSE [tag |-> "Ok",
                   rows |-> (IF v.val = Boolean(TRUE) THEN << row >> ELSE << >>)
                            \o rest.rows]

\* KVTransaction::scan_table on the rows scan_prefix returned: without a
\* filter every row; with one, what the loop over the filters pushes.
RECURSIVE scan_table_loop(_, _, _, _)
scan_table_loop(table_cols, rows, filter, i) ==
    IF i > Len(rows) THEN [tag |-> "Ok", rows |-> << >>]
    ELSE LET head == IF filter = None THEN [tag |-> "Ok", rows |-> << rows[i] >>]
                     ELSE filter_row(table_cols, rows[i], filter[1], 1)
             rest == scan_table_loop(table_cols, rows, filter, i + 1)
         IN  IF head.tag # "Ok" THEN head
             ELSE IF rest.tag # "Ok" THEN rest
             ELSE [tag |-> "Ok", rows |-> head.rows \o rest.rows]

scan_table(table_cols, rows, filter) ==
    LET r == scan_table_loop(table_cols, rows, filter, 1) IN
    IF r.tag = "Ok" THEN ScanOk(table_cols, r.rows) ELSE ScanErr("Internal")

\* KVTransaction::get_table: the stored Table, if any.
get_table(store, txn, name) ==
    LET value == txn_get(store, txn, TableName(name)) IN
    IF value = None THEN None ELSE Some(decode_table(value[1]))

\* KVTransaction::get_table_names: the names of the tables scan_prefix finds
\* under KeyPrefix::Table.
get_table_names(store, txn) ==
    LET values == txn_scan_prefix(store, txn, KeyPrefix_Table) IN
    [i \in 1..Len(values) |-> decode_table(values[i]).name]

\* ------------------------------------------------- the statements executed
\* Statements run by the sessions, and sessions open at once.
MaxStmts == 3
MaxSessions == 2
\* Rows of one INSERT.
MaxRows == 2

Sessions == 1..MaxSessions

c_a_pk == AstColumn("a", "Integer", None, None, TRUE)
c_a == AstColumn("a", "Integer", None, None, FALSE)
c_b == AstColumn("b", "Integer", None, None, FALSE)
c_b_pk == AstColumn("b", "Integer", None, None, TRUE)
c_b_not_null == AstColumn("b", "Integer", Some(FALSE), None, FALSE)
c_b_default_text == AstColumn("b", "Integer", None, Some(String(1)), FALSE)

\* create table t (a int primary key, b int); and variants of its columns.
CreateTables ==
    { CreateTableStmt("t", cols) :
        cols \in { << c_a_pk, c_b >>, << c_a_pk, c_b_not_null >>, << c_a_pk, c_a >>,
                   << c_a, c_b >>, << c_a_pk, c_b_pk >>, << c_a_pk, c_b_default_text >> } }

\* insert into t values (...), (...);
InsertRows ==
    { << Integer(1), Integer(10) >>, << Integer(2), Integer(10) >>,
      << Integer(1), Integer(20) >>, << Integer(2), String(1) >>,
      << Null, Integer(10) >>, << Integer(1) >> }

Inserts ==
    { InsertStmt("t", values) :
        values \in UNION { [1..n -> InsertRows] : n \in 1..MaxRows } }

\* select * from t;  select * from t limit 1;  select * from t limit 'x';
Selects == { SelectStmt("t", limit) : limit \in { None, Some(Integer(1)), Some(String(1)) } }

Stmts == CreateTables \cup Inserts \cup Selects \cup { Unparsable }

\* create table t (a int primary key, b int default 7);
\* insert into t values (1, 10);  insert into t values (2);
\* insert into t(b, a) values (20, 3);  insert into t(a) values (1);
\* insert into t(b) values (20);  select * from t;  select * from t limit 'x';
\* update t set b = 30;  update t set a = 2;  delete from t;
c_b_default_7 == AstColumn("b", "Integer", None, Some(Integer(7)), FALSE)
DmlStmts ==
    { CreateTableStmt("t", << c_a_pk, c_b_default_7 >>),
      InsertStmt("t", << << Integer(1), Integer(10) >> >>),
      InsertStmt("t", << << Integer(2) >> >>),
      InsertColumnsStmt("t", << "b", "a" >>, << << Integer(20), Integer(3) >> >>),
      InsertColumnsStmt("t", << "a" >>, << << Integer(1) >> >>),
      InsertColumnsStmt("t", << "b" >>, << << Integer(20) >> >>),
      SelectStmt("t", None), SelectStmt("t", Some(String(1))),
      UpdateStmt("t", { << "b", Integer(30) >> }),
      UpdateStmt("t", { << "a", Integer(2) >> }),
      DeleteStmt("t"), Unparsable }

\* create table u (a int primary key, b int);
\* insert into t values (1, 10), (2, 20);  insert into t1 values (5, 50);
\* select * from t;  update t set b = 30 where a = 1;
\* update t set a = 2 where a = 1;  update t set a = 3 where a = 1;
\* delete from t where a = 1;
a_is_1 == << Equal(Field("a"), Consts(Integer(1))) >>
TableStmts ==
    { CreateTableStmt("u", << c_a_pk, c_b >>),
      InsertStmt("t", << << Integer(1), Integer(10) >>, << Integer(2), Integer(20) >> >>),
      InsertStmt("t1", << << Integer(5), Integer(50) >> >>),
      SelectStmt("t", None),
      Where(UpdateStmt("t", { << "b", Integer(30) >> }), a_is_1),
      Where(UpdateStmt("t", { << "a", Integer(2) >> }), a_is_1),
      Where(UpdateStmt("t", { << "a", Integer(3) >> }), a_is_1),
      Where(DeleteStmt("t"), a_is_1), Unparsable }

\* The names Session::get_table is called with.
TableNames == { "t", "t1", "u" }

NoTxn == [version |-> 0, active_versions |-> {}]

\* A session outside execute.
Idle ==
    [pc |-> "idle", stmt |-> Unparsable, txn |-> NoTxn, table |-> None,
     row_table |-> None, i |-> 0, row |-> << >>, err |-> "", rows |-> << >>, wrote |-> 0,
     began |-> 0]

\* What one execute returned: Ok(ResultSet) or Err, with the version of the
\* transaction it began (0: none) and the number of txn.set calls that had
\* succeeded inside it.  The runs of the data-changing statements also record
\* the statement and the number of executes that had returned when it began.
Returned(s, stmt, version, tag, err, count, rows, wrote, began) ==
    [session |-> s, kind |-> stmt.kind, version |-> version, tag |-> tag, err |-> err,
     count |-> count, rows |-> rows, wrote |-> wrote,
     stmt |-> IF test \in { "dml", "tables" } THEN stmt ELSE Unparsable,
     began |-> IF test \in { "dml", "tables" } THEN began ELSE 0]

InitSql ==
    /\ engine = EmptyEngine
    /\ poisoned = FALSE
    /\ build = "debug"
    /\ test = "session"
    /\ ip = 1
    /\ txns = << >>
    /\ results = << >>
    /\ status = "running"
    /\ runs = 1
    /\ issued = << >>
    /\ kv = EmptyKv
    /\ sessions = [s \in Sessions |-> Idle]
    /\ disk = NoDisk

Started == Len(results) + Cardinality({ s \in Sessions : sessions[s].pc # "idle" })

UnchangedDriver ==
    UNCHANGED << engine, poisoned, build, test, ip, txns, status, runs, issued, disk >>

\* `?` inside Plan::execute: the error travels up to Session::execute's
\* Err arm, which rolls back.
Fail(s, err) == sessions' = [sessions EXCEPT ![s].pc = "rollback", ![s].err = err]

\* InsertExecutor::execute, the head of its loop for row i: past the last row
\* it returns Ok; else the row is padded and checked and create_row called.
NextRow(sess, i, order) ==
    IF i > Len(sess.stmt.values) THEN [sess EXCEPT !.pc = "commit", !.i = i - 1]
    ELSE LET r == insert_row(sess.table[1], sess.stmt.names, sess.stmt.values[i], order) IN
         IF ~r.ok THEN [sess EXCEPT !.pc = "rollback", !.err = r.err, !.i = i - 1]
         ELSE [sess EXCEPT !.pc = "create_row", !.i = i, !.row = r.row]

\* Session::execute up to Plan::build: parse (an error returns before any
\* transaction), self.engine.begin()?, Plan::build(stmt)? (an error returns
\* at once), then the executor starts.
Execute(s) ==
    /\ sessions[s].pc = "idle"
    /\ Started < MaxStmts
    /\ \E stmt \in (CASE test = "dml" -> DmlStmts
                       [] test = "tables" -> TableStmts
                       [] OTHER -> Stmts) :
          IF stmt.kind = "Unparsable"
          THEN /\ results' = Append(results, Returned(s, stmt, 0, "Err", "Parser", 0, << >>, 0, Len(results)))
               /\ UNCHANGED << kv, sessions >>
          ELSE LET b == kv_begin(kv)
                   plan == build_statement(stmt)
               IN  /\ kv' = b.store
                   /\ IF ~plan.ok
                      THEN /\ results' = Append(results,
                                  Returned(s, stmt, b.txn.version, "Err", plan.err, 0, << >>, 0,
                                           Len(results)))
                           /\ UNCHANGED sessions
                      ELSE /\ sessions' = [sessions EXCEPT ![s] =
                                  [Idle EXCEPT !.stmt = stmt, !.txn = b.txn,
                                     !.began = IF test \in { "dml", "tables" } THEN Len(results) ELSE 0,
                                     !.pc = CASE stmt.kind = "CreateTable" -> "create_table"
                                              [] stmt.kind = "Insert" -> "insert"
                                              [] stmt.kind = "Select" -> "scan"
                                              [] stmt.kind = "Update" -> "scan"
                                              [] stmt.kind = "Delete" -> "scan"]]
                           /\ UNCHANGED results
    /\ UnchangedDriver

\* create_table without its check that the name is free.
CreateTable_get_table_unchecked(s) ==
    /\ sessions[s].pc = "create_table"
    /\ LET schema == build_statement(sessions[s].stmt).node.schema
       IN  IF validate(schema) # "" THEN Fail(s, validate(schema))
           ELSE sessions' = [sessions EXCEPT ![s].pc = "create_table_set"]
    /\ UNCHANGED << kv, results >>
    /\ UnchangedDriver

\* CreateTableExecutor -> KVTransaction::create_table: get_table, then validate.
CreateTable_get_table(s) ==
    /\ sessions[s].pc = "create_table"
    /\ LET sess == sessions[s]
           schema == build_statement(sess.stmt).node.schema
       IN  IF get_table(kv, sess.txn, schema.name) # None THEN Fail(s, "TableExist")
           ELSE IF validate(schema) # "" THEN Fail(s, validate(schema))
           ELSE sessions' = [sessions EXCEPT ![s].pc = "create_table_set"]
    /\ UNCHANGED << kv, results >>
    /\ UnchangedDriver

\* KVTransaction::create_table: self.txn.set(key, table)?
CreateTable_set(s) ==
    /\ sessions[s].pc = "create_table_set"
    /\ LET sess == sessions[s]
           schema == build_statement(sess.stmt).node.schema
           w == txn_write(kv, sess.txn, TableName(schema.name), Some(encode_table(schema)))
       IN  /\ kv' = w.store
           /\ IF ~w.ok THEN Fail(s, w.err)
              ELSE sessions' = [sessions EXCEPT ![s].pc = "commit", ![s].wrote = 1]
    /\ UNCHANGED results
    /\ UnchangedDriver

\* InsertExecutor::execute: txn.get_table_must(table_name)?, then the first row.
Insert_get_table(s) ==
    /\ sessions[s].pc = "insert"
    /\ LET sess == sessions[s]
           t == get_table(kv, sess.txn, sess.stmt.name)
       IN  IF t = None THEN Fail(s, "TableNotFound")
           ELSE \E order \in Orders(make_row_keys(t[1], sess.stmt.names)) :
                   sessions' = [sessions EXCEPT ![s] =
                                   NextRow([sess EXCEPT !.table = t], 1, order)]
    /\ UNCHANGED << kv, results >>
    /\ UnchangedDriver

\* KVTransaction::create_row: get_table_must, then the check of the row.
CreateRow_get_table(s) ==
    /\ sessions[s].pc = "create_row"
    /\ LET sess == sessions[s]
           t == get_table(kv, sess.txn, sess.stmt.name)
       IN  IF t = None THEN Fail(s, "TableNotFound")
           ELSE IF ~row_valid(t[1], sess.row) THEN Fail(s, "Internal")
           ELSE sessions' = [sessions EXCEPT ![s].pc = "create_row_get", ![s].row_table = t]
    /\ UNCHANGED << kv, results >>
    /\ UnchangedDriver

\* The key of the row create_row is writing.
RowId(sess) == RowKey(sess.stmt.name, get_primary_key(sess.row_table[1], sess.row))

\* create_row without its probe of the row's key.
CreateRow_get_unprobed(s) ==
    /\ sessions[s].pc = "create_row_get"
    /\ sessions' = [sessions EXCEPT ![s].pc = "create_row_set"]
    /\ UNCHANGED << kv, results >>
    /\ UnchangedDriver

\* KVTransaction::create_row: the probe self.txn.get(id)?.is_some()
CreateRow_get(s) ==
    /\ sessions[s].pc = "create_row_get"
    /\ LET sess == sessions[s] IN
           IF txn_get(kv, sess.txn, RowId(sess)) # None
           THEN Fail(s, "Internal: Duplicte data for primary key")
           ELSE sessions' = [sessions EXCEPT ![s].pc = "create_row_set"]
    /\ UNCHANGED << kv, results >>
    /\ UnchangedDriver

\* KVTransaction::create_row: self.txn.set(id, value)?, then the next row.
CreateRow_set(s) ==
    /\ sessions[s].pc = "create_row_set"
    /\ LET sess == sessions[s]
           w == txn_write(kv, sess.txn, RowId(sess), Some(encode_row(sess.row)))
       IN  /\ kv' = w.store
           /\ IF ~w.ok THEN Fail(s, w.err)
              ELSE \E order \in Orders(make_row_keys(sess.table[1], sess.stmt.names)) :
                      sessions' = [sessions EXCEPT ![s] =
                                      NextRow([sess EXCEPT !.wrote = @ + 1], sess.i + 1, order)]
    /\ UNCHANGED results
    /\ UnchangedDriver

\* ScanExecutor::execute: txn.get_table_must(table_name)?
Scan_get_table(s) ==
    /\ sessions[s].pc = "scan"
    /\ LET sess == sessions[s]
           t == get_table(kv, sess.txn, sess.stmt.name)
       IN  IF t = None THEN Fail(s, "TableNotFound")
           ELSE sessions' = [sessions EXCEPT ![s].pc = "scan_table", ![s].table = t]
    /\ UNCHANGED << kv, results >>
    /\ UnchangedDriver

\* KVTransaction::scan_table: get_table_must
ScanTable_get_table(s) ==
    /\ sessions[s].pc = "scan_table"
    /\ LET sess == sessions[s] IN
           IF get_table(kv, sess.txn, sess.stmt.name) = None THEN Fail(s, "TableNotFound")
           ELSE sessions' = [sessions EXCEPT ![s].pc = "scan_prefix"]
    /\ UNCHANGED << kv, results >>
    /\ UnchangedDriver

\* KVTransaction::scan_table: self.txn.scan_prefix(prefix)?, the filters, and
\* LimitExecutor's rows.truncate(limit) above it.  The scan that is the
\* source of an UPDATE or a DELETE hands its rows to that executor.
ScanTable_scan_prefix(s) ==
    /\ sessions[s].pc = "scan_prefix"
    /\ LET sess == sessions[s]
           values == txn_scan_prefix(kv, sess.txn, KeyPrefix_Row(sess.stmt.name))
           table_cols == [c \in 1..Len(sess.table[1].columns) |->
                             sess.table[1].columns[c].name]
           scanned == scan_table(table_cols,
                                 [i \in 1..Len(values) |-> decode_row(values[i])],
                                 sess.stmt.filter)
           rows == scanned.rows
           limit == IF sess.stmt.limit = None THEN Len(rows) ELSE sess.stmt.limit[1].v
       IN  IF scanned.tag # "Ok" THEN Fail(s, scanned.err)
           ELSE sessions' = [sessions EXCEPT
                           ![s].pc = IF sess.stmt.kind = "Select" THEN "commit" ELSE "mutate",
                           ![s].rows = IF limit < Len(rows) THEN SubSeq(rows, 1, limit)
                                       ELSE rows]
    /\ UNCHANGED << kv, results >>
    /\ UnchangedDriver

\* Session::execute, Ok arm: txn.commit()?; Ok(result)
Execute_commit(s) ==
    /\ sessions[s].pc = "commit"
    /\ LET sess == sessions[s] IN
           /\ kv' = txn_commit(kv, sess.txn)
           /\ results' = Append(results,
                 Returned(s, sess.stmt, sess.txn.version, "Ok", "", sess.i, sess.rows, sess.wrote,
                          sess.began))
    /\ sessions' = [sessions EXCEPT ![s] = Idle]
    /\ UnchangedDriver

\* The Err arm with commit in the place of rollback.
Execute_rollback_commits(s) ==
    /\ sessions[s].pc = "rollback"
    /\ LET sess == sessions[s] IN
           /\ kv' = txn_commit(kv, sess.txn)
           /\ results' = Append(results,
                 Returned(s, sess.stmt, sess.txn.version, "Err", sess.err, 0, << >>, sess.wrote,
                          sess.began))
    /\ sessions' = [sessions EXCEPT ![s] = Idle]
    /\ UnchangedDriver

\* Session::execute, Err arm: txn.rollback()?; Err(err)
Execute_rollback(s) ==
    /\ sessions[s].pc = "rollback"
    /\ LET sess == sessions[s] IN
           /\ kv' = txn_rollback(kv, sess.txn)
           /\ results' = Append(results,
                 Returned(s, sess.stmt, sess.txn.version, "Err", sess.err, 0, << >>, sess.wrote,
                          sess.began))
    /\ sessions' = [sessions EXCEPT ![s] = Idle]
    /\ UnchangedDriver

\* UpdateExecutor / DeleteExecutor, the head of the loop for row i of the
\* source: past the last row Ok(count); else delete_row, or update_row with
\* the row in which every column the SET map names has its new value.
NextMutation(sess, i) ==
    IF i > Len(sess.rows) THEN [sess EXCEPT !.pc = "commit", !.i = i - 1]
    ELSE IF sess.stmt.kind = "Delete" THEN [sess EXCEPT !.pc = "delete_row", !.i = i]
    ELSE LET columns == sess.table[1].columns
             new_row == [c \in 1..Len(sess.rows[i]) |->
                            IF \E e \in sess.stmt.set : e[1] = columns[c].name
                            THEN (CHOOSE e \in sess.stmt.set : e[1] = columns[c].name)[2]
                            ELSE sess.rows[i][c]]
         IN  [sess EXCEPT !.pc = "update_row", !.i = i, !.row = new_row]

\* UpdateExecutor::execute / DeleteExecutor::execute after the source has
\* returned its rows: txn.get_table_must(table_name)?
Mutate_get_table(s) ==
    /\ sessions[s].pc = "mutate"
    /\ LET sess == sessions[s]
           t == get_table(kv, sess.txn, sess.stmt.name)
       IN  IF t = None THEN Fail(s, "TableNotFound")
           ELSE sessions' = [sessions EXCEPT ![s] =
                                NextMutation([sess EXCEPT !.table = t, !.row_table = t], 1)]
    /\ UNCHANGED << kv, results >>
    /\ UnchangedDriver

\* KVTransaction::delete_row: self.txn.delete(key)?
DeleteRow_delete(s) ==
    /\ sessions[s].pc = "delete_row"
    /\ LET sess == sessions[s]
           id == get_primary_key(sess.table[1], sess.rows[sess.i])
           w == txn_write(kv, sess.txn, RowKey(sess.stmt.name, id), None)
       IN  /\ kv' = w.store
           /\ IF ~w.ok THEN Fail(s, w.err)
              ELSE sessions' = [sessions EXCEPT ![s] =
                                   NextMutation([sess EXCEPT !.wrote = @ + 1], sess.i + 1)]
    /\ UNCHANGED results
    /\ UnchangedDriver

\* KVTransaction::update_row: when the new row has another primary key, the
\* row under the old one is deleted first.
UpdateRow_delete(s) ==
    /\ sessions[s].pc = "update_row"
    /\ LET sess == sessions[s]
           id == get_primary_key(sess.table[1], sess.rows[sess.i])
           new_pk == get_primary_key(sess.table[1], sess.row)
           w == txn_write(kv, sess.txn, RowKey(sess.stmt.name, id), None)
       IN  IF new_pk = id
           THEN /\ sessions' = [sessions EXCEPT ![s].pc = "update_row_set"]
                /\ UNCHANGED kv
           ELSE /\ kv' = w.store
                /\ IF ~w.ok THEN Fail(s, w.err)
                   ELSE sessions' = [sessions EXCEPT ![s].pc = "update_row_set",
                                                     ![s].wrote = @ + 1]
    /\ UNCHANGED results
    /\ UnchangedDriver

\* KVTransaction::update_row: self.txn.set(key, value)? under the new row's
\* primary key, then the next row.
UpdateRow_set(s) ==
    /\ sessions[s].pc = "update_row_set"
    /\ LET sess == sessions[s]
           w == txn_write(kv, sess.txn, RowId(sess), Some(encode_row(sess.row)))
       IN  /\ kv' = w.store
           /\ IF ~w.ok THEN Fail(s, w.err)
              ELSE sessions' = [sessions EXCEPT ![s] =
                                   NextMutation([sess EXCEPT !.wrote = @ + 1], sess.i + 1)]
    /\ UNCHANGED results
    /\ UnchangedDriver

NextSql ==
    \E s \in Sessions :
        \/ Execute(s)
        \/ CreateTable_get_table(s)
        \/ CreateTable_set(s)
        \/ Insert_get_table(s)
        \/ CreateRow_get_table(s)
        \/ CreateRow_get(s)
        \/ CreateRow_set(s)
        \/ Scan_get_table(s)
        \/ ScanTable_get_table(s)
        \/ ScanTable_scan_prefix(s)
        \/ Execute_commit(s)
        \/ Execute_rollback(s)

SpecSql == InitSql /\ [][NextSql]_vars

\* The sessions with the statements that change rows as well.
InitDml ==
    /\ engine = EmptyEngine
    /\ poisoned = FALSE
    /\ build = "debug"
    /\ test = "dml"
    /\ ip = 1
    /\ txns = << >>
    /\ results = << >>
    /\ status = "running"
    /\ runs = 1
    /\ issued = << >>
    /\ kv = EmptyKv
    /\ sessions = [s \in Sessions |-> Idle]
    /\ disk = NoDisk

NextDml ==
    \/ NextSql
    \/ \E s \in Sessions :
          \/ Mutate_get_table(s)
          \/ DeleteRow_delete(s)
          \/ UpdateRow_delete(s)
          \/ UpdateRow_set(s)

SpecDml == InitDml /\ [][NextDml]_vars

\* Session::get_table and Session::get_table_names: self.engine.begin()?
Session_begin(s) ==
    /\ test = "tables"
    /\ sessions[s].pc = "idle"
    /\ Started < MaxStmts
    /\ \E call \in { GetTableCall(name) : name \in TableNames } \cup { GetTableNamesCall } :
          LET b == kv_begin(kv) IN
          /\ kv' = b.store
          /\ sessions' = [sessions EXCEPT ![s] =
                [Idle EXCEPT !.stmt = call, !.txn = b.txn, !.began = Len(results),
                             !.pc = IF call.kind = "GetTable" THEN "get_table"
                                    ELSE "get_table_names"]]
    /\ UNCHANGED results
    /\ UnchangedDriver

\* Session::get_table: txn.get_table_must(table_name)? returns the error at
\* once; else txn.commit()? and Ok(table.to_string()).
Session_get_table(s) ==
    /\ sessions[s].pc = "get_table"
    /\ LET sess == sessions[s]
           t == get_table(kv, sess.txn, sess.stmt.name)
       IN  IF t = None
           THEN /\ results' = Append(results,
                      Returned(s, sess.stmt, sess.txn.version, "Err", "TableNotFound", 0,
                               << >>, 0, sess.began))
                /\ UNCHANGED kv
           ELSE /\ kv' = txn_commit(kv, sess.txn)
                /\ results' = Append(results,
                      Returned(s, sess.stmt, sess.txn.version, "Ok", "", 1, << >>, 0,
                               sess.began))
    /\ sessions' = [sessions EXCEPT ![s] = Idle]
    /\ UnchangedDriver

\* Session::get_table_names: txn.get_table_names()?, txn.commit()?, Ok(the
\* names joined); count is the number of names.
Session_get_table_names(s) ==
    /\ sessions[s].pc = "get_table_names"
    /\ LET sess == sessions[s]
           names == get_table_names(kv, sess.txn)
       IN  /\ kv' = txn_commit(kv, sess.txn)
           /\ results' = Append(results,
                 Returned(s, sess.stmt, sess.txn.version, "Ok", "", Len(names), << >>, 0,
                          sess.began))
    /\ sessions' = [sessions EXCEPT ![s] = Idle]
    /\ UnchangedDriver

\* The store after `create table t (a int primary key, b int);` and the same
\* statement for t1 have been executed on a new KVEngine.
RECURSIVE Created(_)
Created(names) ==
    IF names = << >> THEN EmptyKv
    ELSE LET n == Len(names)
             b == kv_begin(Created(SubSeq(names, 1, n - 1)))
             schema == build_statement(CreateTableStmt(names[n], << c_a_pk, c_b >>)).node.schema
             w == txn_write(b.store, b.txn, TableName(names[n]), Some(encode_table(schema)))
         IN  txn_commit(w.store, b.txn)

\* Sessions that work on two tables and look the catalog up.
InitTables ==
    /\ engine = EmptyEngine
    /\ poisoned = FALSE
    /\ build = "debug"
    /\ test = "tables"
    /\ ip = 1
    /\ txns = << >>
    /\ results = << >>
    /\ status = "running"
    /\ runs = 1
    /\ issued = << >>
    /\ kv = Created(<< "t", "t1" >>)
    /\ sessions = [s \in Sessions |-> Idle]
    /\ disk = NoDisk

NextTables ==
    \/ NextDml
    \/ \E s \in Sessions :
          \/ Session_begin(s)
          \/ Session_get_table(s)
          \/ Session_get_table_names(s)

SpecTables == InitTables /\ [][NextTables]_vars

\* ------------------------------------------- the engines on one log file
\* Keys (the empty key, a key, a key that extends it with 0xFF), values (the
\* empty value among them), ranges and prefixes the engines are called with.
DiskKeys == { << >>, << 97 >>, << 97, 255 >> }
DiskValues == { << >>, << 1 >> }
DiskLows == { Unbounded, Included(<< 97 >>), Excluded(<< 97 >>) }
DiskHighs == { Unbounded, Included(<< 97 >>), Excluded(<< 97, 255 >>) }
DiskPrefixes == { << 97 >>, << 97, 255 >>, << 255 >> }

InitDisk ==
    /\ engine = EmptyEngine
    /\ poisoned = FALSE
    /\ build = "debug"
    /\ test = "disk"
    /\ ip = 1
    /\ txns = << >>
    /\ results = << >>
    /\ status = "running"
    /\ runs = 1
    /\ issued = << >>
    /\ kv = << >>
    /\ sessions = << >>
    /\ disk = NoDisk

UnchangedByDisk ==
    UNCHANGED << poisoned, build, test, ip, txns, results, status, runs, issued, kv, sessions >>

\* The file a handle has open as its log.
LogFile(x) == disk.data[disk.h[x].log]

\* What scan(..) through a handle yields now: the pairs in key order.
Contents(x) ==
    DiskEngine_scan(LogFile(x), disk.h[x].keydir, Unbounded, Unbounded, FALSE).val

\* DiskEngine::new (compact = FALSE) and the first half of new_compact
\* (compact = TRUE): Log::new, then build_keydir.  On an error nothing is open.
DiskEngine_new(x, compact) ==
    /\ disk.observed = NoRead
    /\ disk.h[x].pc = "closed"
    /\ disk.opens < MaxOpens
    /\ LET r == Log_new(disk, x, "log")
           k == build_keydir(r.d.data[r.inode])
       IN  disk' =
             IF ~r.ok
             THEN [r.d EXCEPT !.opens = @ + 1, !.refused = @ + 1]
             ELSE IF ~k.ok
             THEN [r.d EXCEPT !.opens = @ + 1, !.locked[r.inode] = 0]
             ELSE [r.d EXCEPT !.opens = @ + 1,
                              !.h[x] = [Closed EXCEPT
                                          !.pc = IF compact THEN "compact" ELSE "open",
                                          !.keydir = k.keydir, !.log = r.inode,
                                          !.replayed = TRUE]]
    /\ UNCHANGED engine
    /\ UnchangedByDisk

\* DiskEngine::compact: Log::new(new_path).  On an error new_compact returns
\* it and the engine is dropped.
Compact_open(x) ==
    /\ disk.observed = NoRead
    /\ disk.h[x].pc = "compact"
    /\ LET r == Log_new(disk, x, "compact") IN
       disk' = IF ~r.ok
               THEN [r.d EXCEPT !.locked[disk.h[x].log] = 0, !.h[x] = Closed]
               ELSE [r.d EXCEPT !.h[x].pc = "rewrite", !.h[x].new_log = r.inode,
                                !.h[x].before = Contents(x)]
    /\ UNCHANGED engine
    /\ UnchangedByDisk

\* DiskEngine::compact: the rewrite of the live entries into the new log.
Compact_rewrite(x) ==
    /\ disk.observed = NoRead
    /\ disk.h[x].pc = "rewrite"
    /\ LET e == disk.h[x]
           c == compact_loop(Ascending(DOMAIN e.keydir), disk.data[e.log], e.keydir,
                             disk.data[e.new_log], << >>)
       IN  disk' = IF ~c.ok
                   THEN [disk EXCEPT !.data[e.new_log] = c.new_file,
                                     !.locked[e.log] = 0, !.locked[e.new_log] = 0,
                                     !.h[x] = Closed]
                   ELSE [disk EXCEPT !.data[e.new_log] = c.new_file,
                                     !.h[x].new_keydir = c.new_keydir,
                                     !.h[x].pc = "rename"]
    /\ UNCHANGED engine
    /\ UnchangedByDisk

\* DiskEngine::compact: rename(new_log.file_path, &self.log.file_path)
Compact_rename(x) ==
    /\ disk.observed = NoRead
    /\ disk.h[x].pc = "rename"
    /\ disk' = [disk EXCEPT !.paths["log"] = disk.paths["compact"],
                            !.paths["compact"] = 0,
                            !.h[x].pc = "swap"]
    /\ UNCHANGED engine
    /\ UnchangedByDisk

\* DiskEngine::compact: self.keydir = new_keydir; self.log = new_log (the old
\* log is dropped: its lock is released and the unlinked file is gone).
Compact_swap(x) ==
    /\ disk.observed = NoRead
    /\ disk.h[x].pc = "swap"
    /\ LET e == disk.h[x] IN
       disk' = [disk EXCEPT !.locked[e.log] = 0, !.data[e.log] = << >>,
                            !.h[x] = [e EXCEPT !.pc = "open", !.keydir = e.new_keydir,
                                               !.log = e.new_log, !.new_log = 0,
                                               !.new_keydir = << >>,
                                               !.replayed = FALSE,
                                               !.compacted = TRUE]]
    /\ UNCHANGED engine
    /\ UnchangedByDisk

\* drop(eng): the file is closed and its lock released.
DiskEngine_drop(x) ==
    /\ disk.observed = NoRead
    /\ disk.h[x].pc = "open"
    /\ disk' = [disk EXCEPT !.locked[disk.h[x].log] = 0, !.h[x] = Closed,
                            !.at_close = Contents(x)]
    /\ UNCHANGED engine
    /\ UnchangedByDisk

\* eng.set(key, value) on the DiskEngine, and on a MemoryEngine given the same
\* calls.
Disk_set(x) ==
    /\ disk.observed = NoRead
    /\ disk.h[x].pc = "open"
    /\ disk.ops < MaxOps
    /\ \E key \in DiskKeys, value \in DiskValues :
          LET r == DiskEngine_set(LogFile(x), disk.h[x].keydir, key, value) IN
          /\ disk' = [disk EXCEPT !.data[disk.h[x].log] = r.file,
                                  !.h[x].keydir = r.keydir,
                                  !.h[x].replayed = FALSE, !.h[x].compacted = FALSE,
                                  !.ops = @ + 1]
          /\ engine' = Engine_set(engine, key, value)
    /\ UnchangedByDisk

\* eng.delete(key) on both.
Disk_delete(x) ==
    /\ disk.observed = NoRead
    /\ disk.h[x].pc = "open"
    /\ disk.ops < MaxOps
    /\ \E key \in DiskKeys :
          LET r == DiskEngine_delete(LogFile(x), disk.h[x].keydir, key) IN
          /\ disk' = [disk EXCEPT !.data[disk.h[x].log] = r.file,
                                  !.h[x].keydir = r.keydir,
                                  !.h[x].replayed = FALSE, !.h[x].compacted = FALSE,
                                  !.ops = @ + 1]
          /\ engine' = Engine_delete(engine, key)
    /\ UnchangedByDisk

\* eng.get(key)
Disk_get(x) ==
    /\ disk.observed = NoRead
    /\ disk.h[x].pc = "open"
    /\ \E key \in DiskKeys :
          LET r == DiskEngine_get(LogFile(x), disk.h[x].keydir, key) IN
          disk' = [disk EXCEPT !.observed =
                      [NoRead EXCEPT !.op = "get", !.key = key, !.tag = r.tag, !.val = r.val]]
    /\ UNCHANGED engine
    /\ UnchangedByDisk

\* eng.scan(range) collected with next or with next_back.
Disk_scan(x) ==
    /\ disk.observed = NoRead
    /\ disk.h[x].pc = "open"
    /\ \E lo \in DiskLows, hi \in DiskHighs, back \in BOOLEAN :
          LET r == DiskEngine_scan(LogFile(x), disk.h[x].keydir, lo, hi, back) IN
          disk' = [disk EXCEPT !.observed =
                      [NoRead EXCEPT !.op = "scan", !.lo = lo, !.hi = hi, !.back = back,
                                     !.tag = r.tag, !.val = r.val]]
    /\ UNCHANGED engine
    /\ UnchangedByDisk

\* eng.scan_prefix(prefix) collected.
Disk_scan_prefix(x) ==
    /\ disk.observed = NoRead
    /\ disk.h[x].pc = "open"
    /\ \E prefix \in DiskPrefixes, profile \in Builds :
          LET r == DiskEngine_scan_prefix(LogFile(x), disk.h[x].keydir, prefix, profile) IN
          disk' = [disk EXCEPT !.observed =
                      [NoRead EXCEPT !.op = "scan_prefix", !.key = prefix,
                                     !.tag = r.tag, !.val = r.val]]
    /\ UNCHANGED engine
    /\ UnchangedByDisk

\* The caller has compared the result of its read and lets it go.
Disk_read_done ==
    /\ disk.observed # NoRead
    /\ disk' = [disk EXCEPT !.observed = NoRead]
    /\ UNCHANGED engine
    /\ UnchangedByDisk

NextDisk ==
    \/ Disk_read_done
    \/ \E x \in Handles :
          \/ DiskEngine_new(x, FALSE)
          \/ DiskEngine_new(x, TRUE)
          \/ Compact_open(x)
          \/ Compact_rewrite(x)
          \/ Compact_rename(x)
          \/ Compact_swap(x)
          \/ DiskEngine_drop(x)
          \/ Disk_set(x)
          \/ Disk_delete(x)
          \/ Disk_get(x)
          \/ Disk_scan(x)
          \/ Disk_scan_prefix(x)

SpecDisk == InitDisk /\ [][NextDisk]_vars

\* ------------------------------------------------ the key codec on its own
\* Raw keys up to MaxKeyLen bytes over the bytes that matter to the escape
\* (0x00, 0x01, 0xFF), and versions on both sides of a byte boundary.
MaxKeyLen == 2
CodecBytes == { 0, 1, 255 }
CodecVersions == { 0, 1, 255, 256 }
RawKeys == UNION { [1..n -> CodecBytes] : n \in 0..MaxKeyLen }

MvccKeys ==
    { NextVersion }
    \cup { TxnActive(v) : v \in CodecVersions }
    \cup { TxnWrite(v, k) : v \in CodecVersions, k \in RawKeys }
    \cup { Version(k, v) : k \in RawKeys, v \in CodecVersions }

InitCodec ==
    /\ engine = EmptyEngine
    /\ poisoned = FALSE
    /\ build = "debug"
    /\ test = "keycode"
    /\ ip = 1
    /\ txns \in [{ "x", "y" } -> MvccKeys]
    /\ results = << >>
    /\ status = "running"
    /\ runs = 1
    /\ issued = << >>
    /\ kv = << >>
    /\ sessions = << >>
    /\ disk = NoDisk

\* x.encode(), y.encode() and MvccKey::decode(x.encode()), recorded.
CallCodec ==
    /\ status = "running"
    /\ results' = Append(results,
                         [tag |-> "Ok", err |-> "",
                          val |-> << MvccKey_encode(txns["x"]), MvccKey_encode(txns["y"]),
                                     MvccKey_decode(MvccKey_encode(txns["x"])) >>])
    /\ status' = "passed"
    /\ ip' = ip + 1
    /\ UNCHANGED << engine, poisoned, build, test, txns, runs, issued, kv, sessions, disk >>

SpecCodec == InitCodec /\ [][CallCodec]_vars

\* ------------------------------------------------- the query executors
\* ORDER BY items: (column, direction).
Asc(column) == << column, "Asc" >>
Desc(column) == << column, "Desc" >>

\* OrderExecutor::execute, the closure given to sort_by: the first key on
\* which the rows are comparable and differ decides, reversed when the key
\* is descending; else Equal.
RECURSIVE order_cmp(_, _, _, _, _)
order_cmp(columns, order_by, i, row1, row2) ==
    IF i > Len(order_by) THEN "Equal"
    ELSE LET col_index == position(columns, order_by[i][1])
             o == partial_cmp(row1[col_index], row2[col_index])
         IN  IF o \in { "Equal", "None" } THEN order_cmp(columns, order_by, i + 1, row1, row2)
             ELSE IF order_by[i][2] = "Asc" THEN o
             ELSE IF o = "Less" THEN "Greater" ELSE "Less"

\* slice::sort_by on a short slice: insertion sort; each element moves left
\* past the elements the closure says it is Less than and stops at the first
\* one it is not.
RECURSIVE sort_by(_, _, _, _)
sort_by(columns, order_by, rows, n) ==
    IF n = 0 THEN << >>
    ELSE LET sorted == sort_by(columns, order_by, rows, n - 1)
             tail == rows[n]
             stop == { j \in 1..(n - 1) :
                         order_cmp(columns, order_by, 1, tail, sorted[j]) # "Less" }
             k == IF stop = {} THEN 0 ELSE Max(stop)
         IN  SubSeq(sorted, 1, k) \o << tail >> \o SubSeq(sorted, k + 1, n - 1)

\* OrderExecutor::execute on the rows of its source.
OrderExecutor_execute(columns, rows, order_by) ==
    IF \E i \in 1..Len(order_by) : position(columns, order_by[i][1]) = 0
    THEN [tag |-> "Err", err |-> "Internal", columns |-> << >>, rows |-> << >>]
    ELSE [tag |-> "Ok", err |-> "", columns |-> columns,
          rows |-> sort_by(columns, order_by, rows, Len(rows))]

\* join.rs evaluate_expr: a Field is looked up in the first context only; the
\* right operand of `=` is evaluated with the two contexts swapped.
join_evaluate_expr(expression, left_col, left_row, right_col, right_row) ==
    LET field(name, col, row) ==
            IF position(col, name) = 0 THEN [ok |-> FALSE, val |-> Null]
            ELSE [ok |-> TRUE, val |-> row[position(col, name)]]
    IN  IF expression.kind = "Field" THEN field(expression.name, left_col, left_row)
        ELSE LET l == field(expression.left.name, left_col, left_row)
                 r == field(expression.right.name, right_col, right_row)
                 numeric == { "Integer", "Float" }
             IN  IF ~l.ok THEN l
                 ELSE IF ~r.ok THEN r
                 ELSE IF l.val.type \in numeric /\ r.val.type \in numeric
                 THEN [ok |-> TRUE, val |-> Boolean(partial_cmp(l.val, r.val) = "Equal")]
                 ELSE IF l.val.type = r.val.type /\ l.val.type # "Null"
                 THEN [ok |-> TRUE, val |-> Boolean(l.val.v = r.val.v)]
                 ELSE IF l.val.type = "Null" \/ r.val.type = "Null"
                 THEN [ok |-> TRUE, val |-> Null]
                 ELSE [ok |-> FALSE, val |-> Null]

\* NestLoopJoinExecutor::execute, the body of the loop for one left row: the
\* combined rows of the right rows that match (of all of them when there is
\* no predicate), then in outer mode, when no right row matched, the left
\* row with one Null for each value of rrows[0].
join_row(lcols, lrow, rcols, rrows, predicate, outer) ==
    LET eval(j) == join_evaluate_expr(predicate[1], lcols, lrow, rcols, rrows[j])
        taken == { j \in 1..Len(rrows) :
                     predicate = None \/ eval(j).val = Boolean(TRUE) }
        matched == predicate # None /\ taken # {}
        RECURSIVE combined(_)
        combined(j) ==
            IF j > Len(rrows) THEN << >>
            ELSE (IF j \in taken THEN << lrow \o rrows[j] >> ELSE << >>) \o combined(j + 1)
    IN  IF predicate # None /\ \E j \in 1..Len(rrows) :
               \/ ~eval(j).ok
               \/ eval(j).val.type \notin { "Boolean", "Null" }
        THEN [tag |-> "Err", rows |-> << >>]
        ELSE IF outer /\ ~matched
        THEN IF rrows = << >> THEN [tag |-> "Panic", rows |-> << >>]
             ELSE [tag |-> "Ok",
                   rows |-> combined(1)
                            \o << lrow \o [c \in 1..Len(rrows[1]) |-> Null] >>]
        ELSE [tag |-> "Ok", rows |-> combined(1)]

\* NestLoopJoinExecutor::execute on the rows of its two sources: the first
\* left row whose loop body fails ends the call.
RECURSIVE join_loop(_, _, _, _, _, _, _)
join_loop(lcols, lrows, i, rcols, rrows, predicate, outer) ==
    IF i > Len(lrows) THEN [tag |-> "Ok", rows |-> << >>]
    ELSE LET head == join_row(lcols, lrows[i], rcols, rrows, predicate, outer)
             rest == join_loop(lcols, lrows, i + 1, rcols, rrows, predicate, outer)
         IN  IF head.tag # "Ok" THEN head
             ELSE IF rest.tag # "Ok" THEN rest
             ELSE [tag |-> "Ok", rows |-> head.rows \o rest.rows]

NestLoopJoinExecutor_execute(lcols, lrows, rcols, rrows, predicate, outer) ==
    LET r == join_loop(lcols, lrows, 1, rcols, rrows, predicate, outer) IN
    IF r.tag = "Ok" THEN ScanOk(lcols \o rcols, r.rows)
    ELSE IF r.tag = "Err" THEN ScanErr("Internal")
    ELSE ScanPanic

\* The values of a column in the rows, in row order, and those of them that
\* are not Null.
ColumnValues(rows, pos) == [i \in 1..Len(rows) |-> rows[i][pos]]
NonNull(values) == SelectSeq(values, LAMBDA x : x.type # "Null")

\* impl Calculator for Count: the rows whose value is not Null.
Count_calculate(values) == [tag |-> "Ok", val |-> Integer(Len(NonNull(values)))]

\* impl Calculator for Min / Max: the values that are not Null are sorted with
\* partial_cmp(..).unwrap() and the first one is taken; the unwrap panics on
\* the first two values that are not comparable.
Extreme_calculate(values, towards) ==
    LET some == NonNull(values)
        S == { some[i] : i \in 1..Len(some) }
    IN  IF some = << >> THEN [tag |-> "Ok", val |-> Null]
        ELSE IF \E x, y \in S : partial_cmp(x, y) = "None" THEN [tag |-> "Panic", val |-> Null]
        ELSE [tag |-> "Ok",
              val |-> CHOOSE x \in S : \A y \in S : partial_cmp(x, y) \in { towards, "Equal" }]

\* impl Calculator for Sum: the loop over the rows; sum is None or Some(f64).
RECURSIVE Sum_loop(_, _, _)
Sum_loop(values, i, sum) ==
    IF i > Len(values) THEN [tag |-> "Ok", val |-> IF sum = None THEN Null ELSE Float(sum[1])]
    ELSE LET x == values[i] IN
         IF x.type \in { "Integer", "Float" }
         THEN Sum_loop(values, i + 1,
                       IF sum = None THEN Some(0)
                       ELSE Some(sum[1] + (IF x.type = "Integer" THEN AsF64(x.v) ELSE x.v)))
         ELSE IF x.type = "Null" THEN Sum_loop(values, i + 1, sum)
         ELSE [tag |-> "Err", val |-> Null]

Sum_calculate(values) == Sum_loop(values, 1, None)

\* impl Calculator for Avg: Sum over Count, Null unless both are numbers.
Avg_calculate(values) ==
    LET sum == Sum_calculate(values)
        count == Count_calculate(values).val
    IN  IF sum.tag # "Ok" THEN sum
        ELSE IF sum.val.type = "Float"
        THEN [tag |-> "Ok", val |-> Float(sum.val.v \div count.v)]
        ELSE [tag |-> "Ok", val |-> Null]

\* Calculator::build(func_name) and calculate(col_name, columns, rows).
calculate(func, col_name, columns, rows) ==
    LET pos == position(columns, col_name)
        values == ColumnValues(rows, pos)
    IN  IF func \notin { "COUNT", "SUM", "AVG", "MIN", "MAX" } THEN [tag |-> "Err", val |-> Null]
        ELSE IF pos = 0 THEN [tag |-> "Err", val |-> Null]
        ELSE CASE func = "COUNT" -> Count_calculate(values)
               [] func = "SUM" -> Sum_calculate(values)
               [] func = "AVG" -> Avg_calculate(values)
               [] func = "MIN" -> Extreme_calculate(values, "Less")
               [] func = "MAX" -> Extreme_calculate(values, "Greater")

\* AggregateExecutor::execute, the closure agg_calculation: one output row
\* from the rows of a group (col_val is Some(key)) or from all rows (None),
\* expression by expression from number i on.
RECURSIVE agg_calculation(_, _, _, _, _, _)
agg_calculation(expressions, i, group_by, columns, col_val, rows) ==
    IF i > Len(expressions) THEN [tag |-> "Ok", row |-> << >>]
    ELSE LET expr == expressions[i]
             rest == agg_calculation(expressions, i + 1, group_by, columns, col_val, rows)
             value == IF expr.kind = "Function"
                      THEN calculate(expr.func, expr.name, columns, rows)
                      ELSE IF group_by # None /\ expr.name # group_by[1]
                      THEN [tag |-> "Err", val |-> Null]
                      ELSE IF col_val = None THEN [tag |-> "Panic", val |-> Null]
                      ELSE [tag |-> "Ok", val |-> col_val[1]]
         IN  IF value.tag # "Ok" THEN [tag |-> value.tag, row |-> << >>]
             ELSE IF rest.tag # "Ok" THEN rest
             ELSE [tag |-> "Ok", row |-> << value.val >> \o rest.row]

\* The names of the output columns: the function's or the column's name.
agg_columns(expressions) ==
    [i \in 1..Len(expressions) |->
        IF expressions[i].kind = "Function" THEN expressions[i].func
        ELSE expressions[i].name]

\* AggregateExecutor::execute, the loop over agg_map: the groups come in the
\* order the HashMap yields its keys; the first group that fails ends it.
RECURSIVE agg_groups(_, _, _, _, _, _, _)
agg_groups(expressions, group_by, columns, rows, pos, order, i) ==
    IF i > Len(order) THEN [tag |-> "Ok", rows |-> << >>]
    ELSE LET group == SelectSeq(rows, LAMBDA row : row[pos] = order[i])
             head == agg_calculation(expressions, 1, group_by, columns, Some(order[i]), group)
             rest == agg_groups(expressions, group_by, columns, rows, pos, order, i + 1)
         IN  IF head.tag # "Ok" THEN [tag |-> head.tag, rows |-> << >>]
             ELSE IF rest.tag # "Ok" THEN rest
             ELSE [tag |-> "Ok", rows |-> << head.row >> \o rest.rows]

\* The keys of agg_map: the values of the grouping column.
agg_keys(columns, rows, group_by) ==
    IF group_by = None \/ position(columns, group_by[1]) = 0 THEN {}
    ELSE { rows[i][position(columns, group_by[1])] : i \in 1..Len(rows) }

\* AggregateExecutor::execute on the rows of its source; group_by is None or
\* Some(column name); order is the order in which agg_map yields its keys.
AggregateExecutor_execute(columns, rows, expressions, group_by, order) ==
    IF group_by # None
    THEN IF position(columns, group_by[1]) = 0 THEN ScanErr("Internal")
         ELSE LET r == agg_groups(expressions, group_by, columns, rows,
                                  position(columns, group_by[1]), order, 1)
              IN  IF r.tag = "Ok"
                  THEN ScanOk(IF rows = << >> THEN << >> ELSE agg_columns(expressions), r.rows)
                  ELSE IF r.tag = "Err" THEN ScanErr("Internal") ELSE ScanPanic
    ELSE LET r == agg_calculation(expressions, 1, group_by, columns, None, rows)
         IN  IF r.tag = "Ok" THEN ScanOk(agg_columns(expressions), << r.row >>)
             ELSE IF r.tag = "Err" THEN ScanErr("Internal") ELSE ScanPanic

\* LimitExecutor::execute: rows.truncate(self.limit) on the rows of its source;
\* the source's error is returned by `?`.
LimitExecutor_execute(source, limit) ==
    IF source.tag # "Ok" THEN source
    ELSE ScanOk(source.columns, SubSeq(source.rows, 1, Min({ limit, Len(source.rows) })))

\* OffsetExecutor::execute: rows.drain(..self.offset), which panics when the
\* end of the range is beyond the length of the vector.
OffsetExecutor_execute(source, offset) ==
    IF source.tag # "Ok" THEN source
    ELSE IF offset > Len(source.rows) THEN ScanPanic
    ELSE ScanOk(source.columns, SubSeq(source.rows, offset + 1, Len(source.rows)))

\* Planner::build_statement, Select: the Offset node is put on the scan (or
\* the order) node and the Limit node on the Offset node, each when present
\* and each refused when its expression is not an integer; Executor::build
\* then runs the Limit executor on the rows of the Offset executor.
build_statement_limit_offset(source, limit, offset) ==
    IF offset # None /\ offset[1].type # "Integer" THEN ScanErr("Internal")
    ELSE IF limit # None /\ limit[1].type # "Integer" THEN ScanErr("Internal")
    ELSE LET skipped == IF offset = None THEN source
                        ELSE OffsetExecutor_execute(source, offset[1].v)
         IN  IF limit = None THEN skipped ELSE LimitExecutor_execute(skipped, limit[1].v)

\* Parser::parse_from for `left <join_type> join right on left_expr =
\* right_expr`: the two expressions change places for a right join, and a
\* cross join has no predicate.
parse_from(left, join_type, right, left_expr, right_expr) ==
    [left |-> left, right |-> right, join_type |-> join_type,
     predicate |-> IF join_type = "Cross" THEN None
                   ELSE IF join_type = "Right" THEN Some(Equal(right_expr, left_expr))
                   ELSE Some(Equal(left_expr, right_expr))]

\* Planner::build_from_item, FromItem::Join of two tables: the two inputs
\* change places for a right join; outer is set for every join type but Inner
\* and Cross; the predicate is passed on as parsed.
build_from_item(from_item) ==
    [left |-> IF from_item.join_type = "Right" THEN from_item.right ELSE from_item.left,
     right |-> IF from_item.join_type = "Right" THEN from_item.left ELSE from_item.right,
     predicate |-> from_item.predicate,
     outer |-> from_item.join_type \notin { "Inner", "Cross" }]

\* The executors are run on the rows their sources return: at most
\* MaxQueryRows rows; the first column is the primary key, so the rows of a
\* scan come in its order.  A column declared Integer can hold a String,
\* since update_row stores the new value without a check of its type.
MaxQueryRows == 3
QueryValues == { Null, Integer(1), Integer(2), String(1) }
OrderBys ==
    { << Asc("b") >>, << Desc("b") >>, << Asc("b"), Desc("a") >>, << Desc("a") >>,
      << Asc("c") >> }
OrderInputs ==
    { [columns |-> << "a", "b" >>, rows |-> [i \in 1..n |-> << Integer(i), b[i] >>],
       order_by |-> order_by] :
        n \in 0..MaxQueryRows, b \in [1..MaxQueryRows -> QueryValues], order_by \in OrderBys }

\* t1 (a) joined with t2 (c, b): cross join, join and left join on a = b or
\* on b = a.
JoinKinds ==
    { [predicate |-> None, outer |-> FALSE],
      [predicate |-> Some(Equal(Field("a"), Field("b"))), outer |-> FALSE],
      [predicate |-> Some(Equal(Field("a"), Field("b"))), outer |-> TRUE],
      [predicate |-> Some(Equal(Field("b"), Field("a"))), outer |-> TRUE] }
JoinInputs ==
    { [lcols |-> << "a" >>, lrows |-> [i \in 1..n |-> << Integer(i) >>],
       rcols |-> << "c", "b" >>, rrows |-> [i \in 1..m |-> << Integer(i), b[i] >>],
       kind |-> kind] :
        n \in 0..MaxQueryRows, m \in 0..(MaxQueryRows - 1),
        b \in [1..(MaxQueryRows - 1) -> { Null, Integer(1), Integer(2) }],
        kind \in JoinKinds }

\* select count(c) from t;  ... avg(c) ...;  select g, count(c), sum(c) from t
\* group by g;  select c, count(c) from t group by g;  select g, count(c) from t;
Queries ==
    { [expressions |-> << Function(f, "c") >>, group_by |-> None] :
        f \in { "COUNT", "MIN", "MAX", "SUM", "AVG" } }
    \cup { [expressions |-> << Field("g"), Function("COUNT", "c"), Function("SUM", "c") >>,
           group_by |-> Some("g")],
          [expressions |-> << Field("c"), Function("COUNT", "c") >>, group_by |-> Some("g")],
          [expressions |-> << Field("g"), Function("COUNT", "c") >>, group_by |-> None] }
AggregateInputs ==
    { [columns |-> << "a", "g", "c" >>,
       rows |-> [i \in 1..n |-> << Integer(i), Integer(g[i]), c[i] >>], query |-> query] :
        n \in 0..MaxQueryRows, g \in [1..MaxQueryRows -> 1..2],
        c \in [1..MaxQueryRows -> QueryValues], query \in Queries }

\* where a = 1;  where b = 1;  where a = 1 and b = 1 (in both orders);  where b
\* <> 2;  where a;  a filter list with no expression; no filter.  The rows
\* of t (a int primary key, b) are keyed 1, 2, ...
FilterExprs ==
    { Equal(Field("a"), Consts(Integer(1))), Equal(Field("b"), Consts(Integer(1))),
      NotEqual(Field("b"), Consts(Integer(2))), Field("a") }
Filters ==
    { None } \cup { Some(f) : f \in UNION { [1..n -> FilterExprs] : n \in 0..2 } }
FilterInputs ==
    { [columns |-> << "a", "b" >>, rows |-> [i \in 1..n |-> << Integer(i), b[i] >>],
       filter |-> filter] :
        n \in 0..(MaxQueryRows - 1), b \in [1..(MaxQueryRows - 1) -> QueryValues],
        filter \in Filters }

\* select * from t [limit n] [offset m];  n and m from 0 to one more than the
\* number of rows there can be, and 'x'.
MaxCount == 4
Counts == { None, Some(String(1)) } \cup { Some(Integer(n)) : n \in 0..MaxCount }
LimitInputs ==
    { [columns |-> << "a" >>, rows |-> [i \in 1..r |-> << Integer(i) >>],
       limit |-> limit, offset |-> offset] :
        r \in 0..MaxQueryRows, limit \in Counts, offset \in Counts }

\* on a = b;  on b = a;  on a = 1;  on a <> b;  on a > b;  on a < b;  for a
\* row (a) of the left table and a row (b) of the right table.
EvalValues ==
    { Null, Integer(1), Integer(2), Float(12), Float(18), String(1), Boolean(TRUE) }
EvalExprs ==
    { Equal(Field("a"), Field("b")), Equal(Field("b"), Field("a")),
      Equal(Field("a"), Consts(Integer(1))), NotEqual(Field("a"), Field("b")),
      GreaterThan(Field("a"), Field("b")), LessThan(Field("a"), Field("b")) }
EvalInputs ==
    { [expression |-> expression, left_col |-> << "a" >>, left_row |-> << x >>,
       right_col |-> << "b" >>, right_row |-> << y >>] :
        expression \in EvalExprs, x \in EvalValues, y \in EvalValues }

\* select * from t1 right join t2 on a = b;  select * from t2 left join t1 on
\* b = a;  on t1 (a) and t2 (c, b), run one after the other on the same rows.
JoinStmts ==
    << parse_from("t1", "Right", "t2", Field("a"), Field("b")),
       parse_from("t2", "Left", "t1", Field("b"), Field("a")) >>
PlanInputs ==
    { [t1 |-> [columns |-> << "a" >>, rows |-> [i \in 1..n |-> << Integer(i) >>]],
       t2 |-> [columns |-> << "c", "b" >>, rows |-> [i \in 1..m |-> << Integer(i), b[i] >>]]] :
        n \in 0..MaxQueryRows, m \in 0..MaxQueryRows,
        b \in [1..MaxQueryRows -> { Null, Integer(1), Integer(2) }] }

InitQuery ==
    /\ engine = EmptyEngine
    /\ poisoned = FALSE
    /\ build = "debug"
    /\ \/ test = "order" /\ txns \in OrderInputs
       \/ test = "join" /\ txns \in JoinInputs
       \/ test = "aggregate" /\ txns \in AggregateInputs
       \/ test = "filter" /\ txns \in FilterInputs
       \/ test = "limit" /\ txns \in LimitInputs
       \/ test = "eval" /\ txns \in EvalInputs
       \/ test = "plan" /\ txns \in PlanInputs
    /\ ip = 1
    /\ results = << >>
    /\ status = "running"
    /\ runs = 1
    /\ issued = << >>
    /\ kv = << >>
    /\ sessions = << >>
    /\ disk = NoDisk

UnchangedByQuery ==
    UNCHANGED << engine, poisoned, build, test, txns, runs, issued, kv, sessions, disk >>

\* OrderExecutor::execute above a source that returned the rows.
CallOrder ==
    /\ status = "running" /\ test = "order"
    /\ results' = Append(results,
                         OrderExecutor_execute(txns.columns, txns.rows, txns.order_by))
    /\ status' = "passed"
    /\ ip' = ip + 1
    /\ UnchangedByQuery

\* NestLoopJoinExecutor::execute above two sources that returned the rows.
CallJoin ==
    /\ status = "running" /\ test = "join"
    /\ results' = Append(results,
                         NestLoopJoinExecutor_execute(txns.lcols, txns.lrows, txns.rcols,
                             txns.rrows, txns.kind.predicate, txns.kind.outer))
    /\ status' = "passed"
    /\ ip' = ip + 1
    /\ UnchangedByQuery

\* AggregateExecutor::execute above a source that returned the rows.
CallAggregate ==
    /\ status = "running" /\ test = "aggregate"
    /\ \E order \in Orders(agg_keys(txns.columns, txns.rows, txns.query.group_by)) :
          results' = Append(results,
                            AggregateExecutor_execute(txns.columns, txns.rows,
                                txns.query.expressions, txns.query.group_by, order))
    /\ status' = "passed"
    /\ ip' = ip + 1
    /\ UnchangedByQuery

\* KVTransaction::scan_table on a table that holds the rows.
CallFilter ==
    /\ status = "running" /\ test = "filter"
    /\ results' = Append(results, scan_table(txns.columns, txns.rows, txns.filter))
    /\ status' = "passed"
    /\ ip' = ip + 1
    /\ UnchangedByQuery

\* The plan of a select with LIMIT and OFFSET above a scan that returned the rows.
CallLimit ==
    /\ status = "running" /\ test = "limit"
    /\ results' = Append(results,
                         build_statement_limit_offset(ScanOk(txns.columns, txns.rows),
                                                      txns.limit, txns.offset))
    /\ status' = "passed"
    /\ ip' = ip + 1
    /\ UnchangedByQuery

\* evaluate_expr on a predicate and the two contexts of a join.
CallEvaluate ==
    /\ status = "running" /\ test = "eval"
    /\ results' = Append(results,
                         evaluate_expr(txns.expression, txns.left_col, txns.left_row,
                                       txns.right_col, txns.right_row))
    /\ status' = "passed"
    /\ ip' = ip + 1
    /\ UnchangedByQuery

\* The next select of JoinStmts: planned by build_from_item, then the join
\* executor above the scans of its two tables.
CallSelectJoin ==
    /\ status = "running" /\ test = "plan"
    /\ LET node == build_from_item(JoinStmts[ip]) IN
           results' = Append(results,
                             NestLoopJoinExecutor_execute(
                                 txns[node.left].columns, txns[node.left].rows,
                                 txns[node.right].columns, txns[node.right].rows,
                                 node.predicate, node.outer))
    /\ status' = IF ip = Len(JoinStmts) THEN "passed" ELSE "running"
    /\ ip' = ip + 1
    /\ UnchangedByQuery

NextQuery ==
    \/ CallOrder \/ CallJoin \/ CallAggregate \/ CallFilter \/ CallLimit \/ CallEvaluate
    \/ CallSelectJoin

SpecQuery == InitQuery /\ [][NextQuery]_vars

\* ----------------------------------------------------------------- claims
\* Every get the driver has executed returned Ok(want).
GetsAsWanted ==
    \A i \in 1..Len(results) :
        Script(test)[i].op = "get" =>
            results[i].tag = "Ok" /\ results[i].val = Script(test)[i].want

\* Every scan_prefix the driver has executed returned Ok(want).
ScansAsWanted ==
    \A i \in 1..Len(results) :
        Script(test)[i].op = "scan_prefix" =>
            results[i].tag = "Ok" /\ results[i].val = Script(test)[i].want

\* The decoded keys of the engine.
StoredKeys == { MvccKey_decode(k).key : k \in DOMAIN engine }

\* C1 (MVCC snapshot for point reads), on tests::unrepeatable_read: T1 begins
\* before T2; T1.get(key1), issued after T2 set key1 and again after T2
\* committed, returns both times the value committed when T1 began (val1), and
\* the run gets that far.
C1_SnapshotPointRead ==
    test = "unrepeatable_read" => status # "failed" /\ GetsAsWanted

\* C2 (no dirty reads), on the visibility predicate get is built on: a version
\* in T.active_versions (a transaction still active when T began) is never
\* visible to T.
C2_ActiveVersionsInvisible ==
    test = "is_visible" =>
        \A i \in 1..Len(results) :
            results[i].val[1] \in txns["self"].active_versions => ~results[i].val[2]

\* C3 (write conflict against a newer writer): T1 begins, T2 begins, T2 writes
\* key1 (and, in the second caller, commits); then T1's set / delete of key1 is
\* reached and returns Err(WriteMvccConflict).
C3_ConflictWithNewerWriter ==
    test \in {"write_newer_active", "write_newer_committed"} =>
        /\ status # "failed"
        /\ status = "passed" =>
              /\ results[Len(results)].tag = "Err"
              /\ results[Len(results)].err = "WriteMvccConflict"

\* C4 (no lost update): of two transactions active at once that both write
\* key1, the second write in lock order returns Err(WriteMvccConflict),
\* whichever began first; and no key ever has uncommitted versions of two
\* active transactions.
C4_NoLostUpdate ==
    /\ test \in {"write_older_active", "write_newer_active"} =>
          /\ status # "failed"
          /\ status = "passed" => results[Len(results)].err = "WriteMvccConflict"
    /\ test \in Tests =>
          \A k1, k2 \in StoredKeys :
              (/\ k1.tag = "Version" /\ k2.tag = "Version" /\ k1.key = k2.key
               /\ TxnActive(k1.version) \in StoredKeys
               /\ TxnActive(k2.version) \in StoredKeys) => k1.version = k2.version

\* C5 (disjoint writes never conflict), on tests::set and tests::set_conflict:
\* tx1 and tx2 write disjoint keys and tx1 rewrites its own key; every begin,
\* set and commit of these runs returns Ok.
C5_DisjointWritesSucceed ==
    test \in {"set", "set_conflict"} =>
        /\ \A i \in 1..Len(results) :
              Script(test)[i].op \in {"begin", "set", "delete", "commit"} =>
                  results[i].tag = "Ok"

\* C6 (rollback leaves no trace), on tests::rollback: tx1.rollback() returns
\* Ok, tx2 begun afterwards reads the three keys as before tx1 wrote them, and
\* once the rollback has run the engine holds no Version, TxnWrite or TxnActive
\* entry of tx1's version.
C6_RollbackLeavesNoTrace ==
    test = "rollback" =>
        /\ status # "failed"
        /\ GetsAsWanted
        /\ Len(results) >= 12 =>
              /\ results[12].tag = "Ok"
              /\ \A k \in StoredKeys :
                    k.tag \in {"Version", "TxnWrite", "TxnActive"} =>
                        k.version # txns["tx1"].version

\* C7 (committed writes are visible to later transactions), on tests::get and
\* tests::set: a transaction begun after the commits reads, for each key, the
\* committing transaction's last write (None where that was a delete).
C7_CommittedWritesVisible ==
    test \in {"get", "set"} =>
        /\ status # "failed"
        /\ GetsAsWanted

\* C8 (phantom-free prefix scans), on tests::phantom_read and
\* tests::scan_isolation: tx1 writes nothing; its scans return the rows
\* committed when it began, before and after other transactions update,
\* delete and insert keys under the prefix.
C8_PhantomFreeScan ==
    test \in {"phantom_read", "scan_isolation"} => status # "failed" /\ ScansAsWanted

\* C9 (scan_prefix result), on tests::scan_prefix and tests::delete: the scan
\* returns Ok with one pair per raw key under the prefix whose newest visible
\* version has a value, in ascending key order; key2, deleted, is left out and
\* does not make the scan fail.
C9_ScanPrefixResult ==
    test \in {"scan_prefix", "delete"} =>
        /\ status # "failed"
        /\ ScansAsWanted

\* C10 (version allocation): the versions begin hands out are strictly
\* increasing across commits and rollbacks, and the first begin on a new store
\* returns version 1.
C10_VersionAllocation ==
    test \in Tests =>
        /\ \A i, j \in 1..Len(issued) : i < j => issued[i] < issued[j]
        /\ (runs = 1 /\ Len(results) >= 1) =>
              /\ results[1].tag = "Ok"
              /\ issued[1] = 1

MemoryPairs(lo, hi) ==
    LET keys == Ascending({ k \in DOMAIN engine : InRange(k, lo, hi) })
    IN  [i \in 1..Len(keys) |-> << keys[i], engine[keys[i]] >>]

\* C14 (both engines are the same ordered map): every get through a DiskEngine
\* returns what the MemoryEngine given the same set and delete calls returns,
\* and every scan of a range yields the MemoryEngine's pairs of that range,
\* ascending from the front and descending from the back.
C14_EnginesAgree ==
    test = "disk" =>
        LET o == disk.observed IN
        /\ o.op = "get" => (o.tag = "Ok" /\ o.val = Engine_get(engine, o.key))
        /\ o.op = "scan" =>
              /\ o.tag = "Ok"
              /\ o.val = IF o.back THEN Reverse(MemoryPairs(o.lo, o.hi))
                         ELSE MemoryPairs(o.lo, o.hi)

\* A scan from the back has returned two pairs or more, the empty key with the
\* empty value among them, after a key was deleted or overwritten.
C14_Witness ==
    /\ test = "disk"
    /\ disk.observed.op = "scan" /\ disk.observed.back
    /\ Len(disk.observed.val) >= 2
    /\ \E i \in 1..Len(disk.observed.val) : disk.observed.val[i] = << << >>, << >> >>
    /\ disk.ops = MaxOps

\* C15 (scan_prefix): scan_prefix(p) for a non-empty p yields exactly the
\* stored keys that have p as a prefix, with their values, in ascending order.
C15_ScanPrefix ==
    test = "disk" =>
        LET o == disk.observed
            has_prefix(k) == Len(k) >= Len(o.key) /\ SubSeq(k, 1, Len(o.key)) = o.key
            keys == Ascending({ k \in DOMAIN engine : has_prefix(k) })
        IN  o.op = "scan_prefix" =>
               /\ o.tag = "Ok"
               /\ o.val = [i \in 1..Len(keys) |-> << keys[i], engine[keys[i]] >>]

\* C16 (log replay): an engine just opened by DiskEngine::new reads, by scan(..)
\* and by every get, exactly what the engine that last closed the file read.
C16_ReplayRebuildsTheMap ==
    test = "disk" =>
        \A x \in Handles :
            (disk.h[x].replayed /\ disk.h[x].pc \in { "open", "compact" }) =>
                /\ Contents(x) = disk.at_close
                /\ \A key \in DiskKeys :
                      LET r == DiskEngine_get(LogFile(x), disk.h[x].keydir, key) IN
                      /\ r.tag = "Ok"
                      /\ r.val = IF \E p \in 1..Len(disk.at_close) : disk.at_close[p][1] = key
                                 THEN Some((CHOOSE p \in { disk.at_close[i] :
                                               i \in 1..Len(disk.at_close) } : p[1] = key)[2])
                                 ELSE None

\* A file whose last entry is a tombstone, with a key that was overwritten or
\* is still live, has been closed and reopened.
C16_Witness ==
    /\ test = "disk"
    /\ \E x \in Handles :
          /\ disk.h[x].replayed /\ disk.h[x].pc = "open"
          /\ disk.opens >= 2 /\ disk.ops = MaxOps
          /\ Len(disk.at_close) >= 1
          /\ Len(LogFile(x)) >= 4
          /\ SubSeq(LogFile(x), Len(LogFile(x)) - 3, Len(LogFile(x))) # << 255, 255, 255, 255 >>
          /\ \E key \in DiskKeys :
                /\ key \in DOMAIN engine
                /\ LogFile(x) # write_entry(<< >>, key, Some(engine[key])).file

\* C17 (compaction preserves content): after new_compact, scan(..) and every
\* get return what they returned just before the compaction.
C17_CompactionPreservesContent ==
    test = "disk" =>
        \A x \in Handles :
            (disk.h[x].compacted /\ disk.h[x].pc = "open") =>
                /\ Contents(x) = disk.h[x].before
                /\ \A key \in DiskKeys :
                      LET r == DiskEngine_get(LogFile(x), disk.h[x].keydir, key)
                          was == { disk.h[x].before[i] : i \in 1..Len(disk.h[x].before) }
                      IN  /\ r.tag = "Ok"
                          /\ r.val = IF \E p \in was : p[1] = key
                                     THEN Some((CHOOSE p \in was : p[1] = key)[2])
                                     ELSE None

\* A file that holds live keys after MaxOps set and delete calls has been
\* compacted by the last engine opened on it.
C17_Witness ==
    /\ test = "disk"
    /\ \E x \in Handles :
          /\ disk.h[x].compacted /\ disk.h[x].pc = "open"
          /\ Len(disk.h[x].before) >= 1
          /\ disk.ops = MaxOps
          /\ disk.opens = MaxOpens

\* The engines that hold a file open, by file.
Holders(i) == { x \in Handles : disk.h[x].log = i \/ disk.h[x].new_log = i }

\* C18 (exclusive open): no file is ever held open by two engines, also while
\* a compaction replaces the log; an attempt to open the log while an engine
\* holds it fails, and a failed attempt leaves every file as it was.
C18_ExclusiveOpen ==
    [][test = "disk" =>
        /\ \A i \in Inodes : Cardinality({ x \in Handles : disk'.h[x].log = i
                                                          \/ disk'.h[x].new_log = i }) <= 1
        /\ (disk'.opens > disk.opens /\ Holders(disk.paths["log"]) # {}
            /\ disk.paths["log"] # 0)
              => disk'.refused > disk.refused
        /\ disk'.refused > disk.refused
              => (disk'.data = disk.data /\ disk'.paths = disk.paths /\ disk'.h = disk.h)]_vars

\* An attempt to open the log was refused while the engine holding it was
\* replacing it by compaction.
C18_Witness ==
    /\ test = "disk"
    /\ disk.refused >= 1 /\ disk.opens = 2
    /\ \E x \in Handles : disk.h[x].pc \in { "rename", "swap" }

\* C19 (key codec): decoding the encoding of an MvccKey gives the key back, and
\* the encodings of two Version keys compare, as byte strings, as the pairs
\* (raw key, version) compare.
C19_KeyCodec ==
    (test = "keycode" /\ results # << >>) =>
        LET x == txns["x"]
            y == txns["y"]
            ex == results[1].val[1]
            ey == results[1].val[2]
            dx == results[1].val[3]
        IN  /\ dx.ok /\ dx.key = x
            /\ (x.tag = "Version" /\ y.tag = "Version") =>
                  (LexLess(ex, ey) <=>
                      \/ LexLess(x.key, y.key)
                      \/ x.key = y.key /\ x.version < y.version)

\* Two Version keys whose raw keys hold 0x00 bytes, one a proper prefix of the
\* other, have been encoded and the first decoded.
C19_Witness ==
    /\ test = "keycode" /\ results # << >>
    /\ txns["x"] = Version(<< 0 >>, 256)
    /\ txns["y"] = Version(<< 0, 0 >>, 1)

\* The table of result i's statement was in the catalog when the statement
\* began: a CREATE TABLE of it had returned Ok (no statement drops a table).
InCatalog(i) ==
    \E j \in 1..results[i].began :
        /\ results[j].kind = "CreateTable" /\ results[j].tag = "Ok"
        /\ results[j].stmt.name = results[i].stmt.name

\* The store holds nothing written by the statement of result r.
WroteNothing(r) ==
    /\ r.wrote = 0
    /\ \A e \in kv.versions : e.version # r.version
    /\ \A w \in kv.writes : w[1] # r.version

StoredTables ==
    { decode_table(e.value[1]) : e \in { e \in kv.versions : e.key.tag = "TableName" } }
ExpectedRow(table, names, values) ==
    [c \in 1..Len(table.columns) |->
        IF names = << >>
        THEN IF c <= Len(values) THEN values[c] ELSE table.columns[c].default_value[1]
        ELSE IF \E j \in 1..Len(names) : names[j] = table.columns[c].name
        THEN values[CHOOSE j \in 1..Len(names) : names[j] = table.columns[c].name]
        ELSE table.columns[c].default_value[1]]
Defaultless(table, names, values) ==
    \E c \in 1..Len(table.columns) :
        /\ table.columns[c].default_value = None
        /\ IF names = << >> THEN c > Len(values)
           ELSE \A j \in 1..Len(names) : names[j] # table.columns[c].name

MustPrecede(columns, order_by, r1, r2) ==
    \E k \in 1..Len(order_by) :
        LET at(j) == position(columns, order_by[j][1]) IN
        /\ \A j \in 1..(k - 1) : partial_cmp(r1[at(j)], r2[at(j)]) = "Equal"
        /\ partial_cmp(r1[at(k)], r2[at(k)])
               = (IF order_by[k][2] = "Asc" THEN "Less" ELSE "Greater")

RECURSIVE LeftJoinRows(_, _, _, _, _, _, _)
LeftJoinRows(lcols, lrows, i, rcols, rrows, l, r) ==
    IF i > Len(lrows) THEN << >>
    ELSE LET lrow == lrows[i]
             match(rrow) == /\ lrow[position(lcols, l)].type # "Null"
                            /\ lrow[position(lcols, l)] = rrow[position(rcols, r)]
             matches == SelectSeq(rrows, match)
             combined == [j \in 1..Len(matches) |-> lrow \o matches[j]]
         IN  (IF matches = << >> THEN << lrow \o [c \in 1..Len(rcols) |-> Null] >>
              ELSE combined)
             \o LeftJoinRows(lcols, lrows, i + 1, rcols, rrows, l, r)

\* C24 (LEFT JOIN): t1 LEFT JOIN t2 ON a = b returns Ok with, for each left
\* row in order, one combined row per right row whose b equals its a, and one
\* row of the left row followed by a Null per column of t2 when there is no
\* such right row; so for every right input, an empty t2 included.
C24_LeftJoin ==
    (test = "join" /\ Len(results) = 1 /\ txns.kind.outer
        /\ txns.kind.predicate = Some(Equal(Field("a"), Field("b")))) =>
        /\ results[1].tag = "Ok"
        /\ results[1].columns = txns.lcols \o txns.rcols
        /\ results[1].rows
              = LeftJoinRows(txns.lcols, txns.lrows, 1, txns.rcols, txns.rrows, "a", "b")

\* The sum of a sequence of numbers, as an f64.
RECURSIVE Total(_)
Total(values) ==
    IF values = << >> THEN 0
    ELSE (IF Head(values).type = "Integer" THEN AsF64(Head(values).v) ELSE Head(values).v)
         + Total(Tail(values))

\* C25 (aggregates): over the rows of a table, COUNT(c) is the number of rows
\* whose c is not Null; MIN(c) and MAX(c) are the least and the greatest c
\* that is not Null, and Null when there is none; SUM(c) is the sum of every c
\* that is not Null, Null when there is none and an error when one of them is
\* not a number; AVG(c) is SUM(c) / COUNT(c), and Null when COUNT(c) is zero.
C25_Aggregates ==
    (test = "aggregate" /\ Len(results) = 1 /\ txns.query.group_by = None
        /\ Len(txns.query.expressions) = 1) =>
        LET func == txns.query.expressions[1].func
            some == NonNull(ColumnValues(txns.rows, position(txns.columns, "c")))
            S == { some[i] : i \in 1..Len(some) }
            numbers == \A x \in S : x.type \in { "Integer", "Float" }
            Is(value) == results[1].tag = "Ok" /\ results[1].rows = << << value >> >>
        IN  CASE func = "COUNT" -> Is(Integer(Len(some)))
              [] func \in { "MIN", "MAX" } ->
                    IF some = << >> THEN Is(Null)
                    ELSE (\A x, y \in S : partial_cmp(x, y) # "None") =>
                            Is(CHOOSE x \in S : \A y \in S :
                                   partial_cmp(x, y)
                                       \in { IF func = "MIN" THEN "Less" ELSE "Greater", "Equal" })
              [] func = "SUM" ->
                    IF ~numbers THEN results[1].tag = "Err"
                    ELSE IF some = << >> THEN Is(Null)
                    ELSE Is(Float(Total(some)))
              [] func = "AVG" ->
                    IF some = << >> THEN Is(Null)
                    ELSE numbers => Is(Float(Total(some) \div Len(some)))

\* C26 (GROUP BY): select g, count(c), sum(c) from t group by g returns one
\* row per distinct value of g, with the aggregates of exactly the rows that
\* have that value; a projection of a column that is neither aggregated nor
\* the grouping column returns an error, with and without GROUP BY.
C26_GroupBy ==
    (test = "aggregate" /\ Len(results) = 1 /\ txns.rows # << >>
        /\ Len(txns.query.expressions) > 1) =>
        LET q == txns.query
            keys == { txns.rows[i][2] : i \in 1..Len(txns.rows) }
            group(k) == SelectSeq(txns.rows, LAMBDA row : row[2] = k)
            out == results[1].rows
            numbers == \A i \in 1..Len(txns.rows) : txns.rows[i][3].type # "String"
        IN  IF q.group_by = Some("g") /\ q.expressions[1] = Field("g")
            THEN numbers =>
                    /\ results[1].tag = "Ok"
                    /\ Len(out) = Cardinality(keys)
                    /\ { out[i] : i \in 1..Len(out) }
                          = { << k, calculate("COUNT", "c", txns.columns, group(k)).val,
                                 calculate("SUM", "c", txns.columns, group(k)).val >> :
                              k \in keys }
            ELSE results[1].tag = "Err"

\* Statement j of the running driver ended the transaction that its statement
\* i began: a commit or rollback through the same local, not bound anew in
\* between, that returned Ok.
Ended(i, j) ==
    /\ i < j /\ j <= Len(results)
    /\ Script(test)[j].op \in { "commit", "rollback" }
    /\ Script(test)[j].tx = Script(test)[i].tx
    /\ results[j].tag = "Ok"
    /\ \A k \in (i + 1)..(j - 1) :
          ~(Script(test)[k].op = "begin" /\ Script(test)[k].tx = Script(test)[i].tx)

\* The versions in flight after the first n statements of the driver.
InFlight(n) ==
    { results[i].val.version :
        i \in { i \in 1..n : /\ Script(test)[i].op = "begin" /\ results[i].tag = "Ok"
                             /\ \A j \in (i + 1)..n : ~Ended(i, j) } }

\* C27 (active-set capture): on a store that only this driver has used, every
\* begin it has executed returned Ok with the versions then in flight as its
\* active_versions, and the TxnActive entries of the store are those of the
\* versions now in flight.
C27_ActiveSetCapture ==
    runs = 1 =>
        /\ \A i \in 1..Len(results) :
              Script(test)[i].op = "begin" =>
                  /\ results[i].tag = "Ok"
                  /\ results[i].val.active_versions = InFlight(i - 1)
        /\ { k.version : k \in { k \in StoredKeys : k.tag = "TxnActive" } }
              = InFlight(Len(results))

\* C28 (commit frame): every commit the driver comes to returns Ok, and in the
\* state it leaves the store holds no TxnWrite and no TxnActive entry of the
\* committed version, while NextVersion and the Version entry of every key
\* the transaction wrote are still there.
C28_CommitFrame ==
    (runs = 1 /\ \E i \in 1..Len(Script(test)) : Script(test)[i].op = "commit") =>
        /\ status # "failed"
        /\ \A j \in 1..Len(results) :
              Script(test)[j].op = "commit" =>
                  /\ results[j].tag = "Ok"
                  /\ j = Len(results) =>
                        \E i \in 1..(j - 1) :
                            LET v == results[i].val.version IN
                            /\ Script(test)[i].op = "begin" /\ Ended(i, j)
                            /\ \A k \in StoredKeys :
                                  k.tag \in { "TxnWrite", "TxnActive" } => k.version # v
                            /\ NextVersion \in StoredKeys
                            /\ \A w \in (i + 1)..(j - 1) :
                                  ( /\ Script(test)[w].op \in { "set", "delete" }
                                    /\ Script(test)[w].tx = Script(test)[j].tx )
                                      => Version(Script(test)[w].key, v) \in StoredKeys

\* C29 (read-your-own-writes): the driver that sets a key, reads it, scans its
\* prefix, deletes it and reads it again inside one transaction, over an older
\* committed version of the key, gets the value it set from get and from
\* scan_prefix and None after the delete.
C29_ReadYourOwnWrites ==
    test = "read_own_writes" =>
        /\ status # "failed"
        /\ GetsAsWanted
        /\ ScansAsWanted

\* The entries of a log file from offset on, read off its bytes: the key, whether
\* the entry is a tombstone, and where its value bytes lie.  A file that does not
\* end with a whole entry yields a last entry with at = -1.
RECURSIVE LogEntries(_, _)
LogEntries(file, offset) ==
    IF offset >= Len(file) THEN << >>
    ELSE IF offset + LOG_HEADER_SIZE > Len(file)
    THEN << [key |-> << >>, tomb |-> TRUE, at |-> -1, len |-> 0] >>
    ELSE LET klen == u32_from_be_bytes(SubSeq(file, offset + 1, offset + 4))
             vlen == i32_from_be_bytes(SubSeq(file, offset + 5, offset + 8))
             at == offset + LOG_HEADER_SIZE + klen
             len == IF vlen = -1 THEN 0 ELSE vlen
         IN  IF at + len > Len(file)
             THEN << [key |-> << >>, tomb |-> TRUE, at |-> -1, len |-> 0] >>
             ELSE << [key |-> SubSeq(file, offset + LOG_HEADER_SIZE + 1, at),
                      tomb |-> (vlen = -1), at |-> at, len |-> len] >>
                  \o LogEntries(file, at + len)

\* The last entry for key among entries (0: none).
LastEntry(entries, key) ==
    Max({ 0 } \cup { i \in 1..Len(entries) : entries[i].key = key })

\* The directory of an engine points, for every key, at the value bytes of the
\* key's last entry in file, and holds no key whose last entry is a tombstone.
KeyDirLocates(file, keydir) ==
    LET entries == LogEntries(file, 0) IN
    /\ \A i \in 1..Len(entries) : entries[i].at # -1
    /\ \A key \in DiskKeys :
          LET last == LastEntry(entries, key) IN
          /\ key \in DOMAIN keydir <=> (last # 0 /\ ~entries[last].tomb)
          /\ key \in DOMAIN keydir =>
                /\ keydir[key] = << entries[last].at, entries[last].len >>
                /\ DiskEngine_get(file, keydir, key).val
                     = Some(SubSeq(file, entries[last].at + 1,
                                   entries[last].at + entries[last].len))

\* C30 (key-directory invariant): after open and after every set, delete and
\* compaction the key directory holds key k exactly when the last log entry for
\* k is not a tombstone, and its (offset, length) pair locates the value bytes
\* of that entry in the current log file; set and delete each append exactly one
\* entry at the end of the file and leave the earlier bytes as they were.
C30_KeyDirInvariant ==
    [][test = "disk" =>
        /\ \A x \in Handles :
              disk'.h[x].pc \in { "open", "compact", "rewrite", "rename" } =>
                  KeyDirLocates(disk'.data[disk'.h[x].log], disk'.h[x].keydir)
        /\ \A x \in Handles :
              disk'.h[x].pc = "swap" =>
                  KeyDirLocates(disk'.data[disk'.h[x].new_log], disk'.h[x].new_keydir)
        /\ disk'.ops = disk.ops + 1 =>
              \E x \in Handles :
                  LET was == LogFile(x)
                      now == disk'.data[disk.h[x].log]
                  IN  /\ disk.h[x].pc = "open" /\ disk'.h[x].pc = "open"
                      /\ disk'.h[x].log = disk.h[x].log
                      /\ Len(now) > Len(was)
                      /\ SubSeq(now, 1, Len(was)) = was
                      /\ Len(LogEntries(now, 0)) = Len(LogEntries(was, 0)) + 1
                      /\ \A i \in Inodes \ { disk.h[x].log } : disk'.data[i] = disk.data[i]
    ]_vars

\* An engine has just appended to a log of three entries or more in which one
\* key's last entry is a tombstone and a key in the directory has an earlier
\* entry as well, the file having been opened more than once.
C30_Witness ==
    /\ test = "disk"
    /\ \E x \in Handles :
          LET entries == LogEntries(LogFile(x), 0) IN
          /\ disk.h[x].pc = "open"
          /\ ~disk.h[x].replayed /\ ~disk.h[x].compacted
          /\ disk.opens >= 2
          /\ Len(entries) >= 3
          /\ \E key \in DiskKeys :
                LastEntry(entries, key) # 0 /\ entries[LastEntry(entries, key)].tomb
          /\ \E key \in DOMAIN disk.h[x].keydir :
                \E i \in 1..(LastEntry(entries, key) - 1) : entries[i].key = key

\* C31 (a failed write writes nothing): in the driver whose first transaction
\* has written key2 and then sets key1, written by a second transaction still
\* active, that set is reached and returns Err(WriteMvccConflict); the store then
\* holds exactly the entries it held before it (NextVersion, the two TxnActive
\* entries and each transaction's TxnWrite and Version entry); the transaction
\* still reads its own write, and after its rollback, which returns Ok, no
\* Version, TxnWrite or TxnActive entry of its version is left.
C31_ConflictWritesNothing ==
    test = "conflict_keeps_writes" =>
        /\ status # "failed"
        /\ GetsAsWanted
        /\ Len(results) >= 5 =>
              LET v1 == results[1].val.version
                  v2 == results[3].val.version
              IN  /\ results[5].tag = "Err" /\ results[5].err = "WriteMvccConflict"
                  /\ Len(results) = 5 =>
                        StoredKeys = { NextVersion, TxnActive(v1), TxnActive(v2),
                                       TxnWrite(v1, b_key2), Version(b_key2, v1),
                                       TxnWrite(v2, b_key1), Version(b_key1, v2) }
                  /\ Len(results) = 7 =>
                        /\ results[7].tag = "Ok"
                        /\ \A k \in StoredKeys :
                              k.tag \in { "Version", "TxnWrite", "TxnActive" } =>
                                  k.version # v1

Passes(columns, row, filters) ==
    \A k \in 1..Len(filters) :
        evaluate_expr(filters[k], columns, row, columns, row).val = Boolean(TRUE)
Decidable(columns, row, filters) ==
    \A k \in 1..Len(filters) :
        LET v == evaluate_expr(filters[k], columns, row, columns, row) IN
        v.ok /\ v.val.type \in { "Boolean", "Null" }

\* C34 (scan with a filter list): when every filter expression evaluates to a
\* Boolean or to Null on every row, scan_table returns Ok with exactly the
\* rows on which every expression is Boolean(true), each once and in the order
\* of the table; else it returns an error.
C34_ScanFilter ==
    (test = "filter" /\ status = "passed" /\ txns.filter # None) =>
        LET filters == txns.filter[1]
            kept == SelectSeq(txns.rows, LAMBDA row : Passes(txns.columns, row, filters))
        IN  IF \A i \in 1..Len(txns.rows) : Decidable(txns.columns, txns.rows[i], filters)
            THEN results[1].tag = "Ok" /\ results[1].rows = kept
            ELSE results[1].tag = "Err"

\* The rows of a table a transaction begun now would read: for each Row key of
\* the table the newest version of a transaction that is not active, when that
\* version is not a deletion.
TableRows(store, name) ==
    LET seen == { e \in store.versions :
                     /\ e.key.tag = "RowKey" /\ e.key.name = name
                     /\ e.version \notin store.active }
        newest == { e \in seen : \A f \in seen : f.key = e.key => f.version <= e.version }
    IN  { decode_row(e.value[1]) : e \in { e \in newest : e.value # None } }

\* The row with the SET map of an UPDATE applied, for t (a, b).
Assigned(row, set) ==
    [c \in 1..Len(row) |->
        IF \E e \in set : e[1] = << "a", "b" >>[c]
        THEN (CHOOSE e \in set : e[1] = << "a", "b" >>[c])[2]
        ELSE row[c]]

\* The rows of a table that match the WHERE clause of a statement.
Matching(rows, stmt) ==
    { row \in rows : stmt.filter = None \/ Passes(<< "a", "b" >>, row, stmt.filter[1]) }

Conforms(table, row) ==
    /\ Len(row) = Len(table.columns)
    /\ \A i \in 1..Len(row) :
          /\ row[i] = Null => table.columns[i].nullable
          /\ row[i] # Null => row[i].type = table.columns[i].data_type

\* The schemas stored under the name of a table.
Schemas(store, name) ==
    { decode_table(e.value[1]) :
        e \in { e \in store.versions : e.key = TableName(name) /\ e.value # None } }

C38_LimitOffset ==
    (/\ test = "limit" /\ status = "passed"
     /\ txns.limit # None /\ txns.limit[1].type = "Integer"
     /\ txns.offset # None /\ txns.offset[1].type = "Integer") =>
        LET m == txns.offset[1].v
            n == txns.limit[1].v
            r == Len(txns.rows)
        IN  /\ results[1].tag = "Ok"
            /\ results[1].rows = [i \in 1..(Min({ r, m + n }) - Min({ r, m })) |-> txns.rows[m + i]]

\* The value of an operand when a Field is looked up in the left context
\* first and in the right context when the left one lacks the name.
Resolved(operand, input) ==
    IF operand.kind = "Consts" THEN << operand.value >>
    ELSE IF position(input.left_col, operand.name) # 0
    THEN << input.left_row[position(input.left_col, operand.name)] >>
    ELSE IF position(input.right_col, operand.name) # 0
    THEN << input.right_row[position(input.right_col, operand.name)] >>
    ELSE << >>

\* The numeric value of an Integer or a Float, in twelfths.
Twelfths(value) == IF value.type = "Integer" THEN 12 * value.v ELSE value.v

\* C39 (expression evaluation): a comparison, with each Field operand looked
\* up in the left context and then in the right one, is Null when an operand
\* is Null, the numeric comparison of Integer and Float operands, the
\* comparison of two operands of one type, and an error for any other pair
\* of types.
C39_Evaluate ==
    (test = "eval" /\ status = "passed") =>
        LET l == Resolved(txns.expression.left, txns)[1]
            r == Resolved(txns.expression.right, txns)[1]
            numeric == { "Integer", "Float" }
            lv == IF l.type \in numeric THEN Twelfths(l) ELSE l.v
            rv == IF r.type \in numeric THEN Twelfths(r) ELSE r.v
            holds == CASE txns.expression.kind = "Equal" -> lv = rv
                       [] txns.expression.kind = "NotEqual" -> lv # rv
                       [] txns.expression.kind = "GreaterThan" -> lv > rv
                       [] txns.expression.kind = "LessThan" -> lv < rv
        IN  IF l = Null \/ r = Null THEN results[1] = [ok |-> TRUE, val |-> Null]
            ELSE IF (l.type \in numeric /\ r.type \in numeric) \/ l.type = r.type
            THEN results[1] = [ok |-> TRUE, val |-> Boolean(holds)]
            ELSE ~results[1].ok

\* C40 (RIGHT JOIN): t1 right join t2 on a = b returns what t2 left join t1
\* on b = a returns, which is Ok with the columns of t2 followed by those of
\* t1; every row of t2 is the head of a result row, once per row of t1 with
\* a = b, and of one row that ends in a Null for each column of t1 when no row
\* of t1 has a = b.
C40_RightJoin ==
    (test = "plan" /\ status = "passed") =>
        LET got == results[1]
            n2 == Len(txns.t2.columns)
            matches(row) == { i \in 1..Len(txns.t1.rows) : txns.t1.rows[i][1] = row[2] }
        IN  /\ got = results[2]
            /\ got.tag = "Ok"
            /\ got.columns = txns.t2.columns \o txns.t1.columns
            /\ \A j \in 1..Len(txns.t2.rows) :
                  LET row == txns.t2.rows[j]
                      tails == { SubSeq(got.rows[k], n2 + 1, Len(got.rows[k])) :
                                   k \in { k \in 1..Len(got.rows) :
                                             SubSeq(got.rows[k], 1, n2) = row } }
                  IN  IF matches(row) = {}
                      THEN tails = { [c \in 1..Len(txns.t1.columns) |-> Null] }
                      ELSE tails = { txns.t1.rows[i] : i \in matches(row) }
            /\ Len(got.rows) = Cardinality({ << j, i >> \in
                                    (1..Len(txns.t2.rows)) \X (0..Len(txns.t1.rows)) :
                                        \/ i \in matches(txns.t2.rows[j])
                                        \/ i = 0 /\ matches(txns.t2.rows[j]) = {} })

====
